---- MODULE Spec2Model ----
(***************************************************************************)
(* Matcher/IR compilation core of code-pathfinder's Python SDK: the rule   *)
(* registry and its exit-time emission (codepathfinder/decorators.py), the *)
(* process-wide defaults (codepathfinder/config.py), the dataflow matcher  *)
(* (codepathfinder/dataflow.py) and the matchers it is built from.         *)
(*                                                                         *)
(* Python values are represented as follows.                               *)
(*   str            a sequence of one-character strings                    *)
(*   Optional[x]    <<>> for None, <<x>> for a value                       *)
(*   list object    a reference (index) into heap, so that two names of    *)
(*                  the same list see each other's in-place mutations      *)
(*   call result    [exc |-> "none", val |-> <<v>>] when the call returns  *)
(*                  v, [exc |-> E, val |-> <<>>] when it raises E          *)
(***************************************************************************)
EXTENDS Integers, Sequences, FiniteSets, TLC

\* ------------------------------------------------------------------------
\* Bounds of the model
\* ------------------------------------------------------------------------
MaxRules == 2        \* rule definitions per process
MaxExecutes == 1     \* direct Rule.execute() calls per process
MaxConfigCalls == 4  \* lists allocated, matchers built and appends made per process
MaxDecorations == 2  \* container rule decorators applied per process

\* ------------------------------------------------------------------------
\* Results of calls
\* ------------------------------------------------------------------------
Ok(v) == [exc |-> "none", val |-> <<v>>]

Raise(e) == [exc |-> e, val |-> <<>>]

Returned(r) == r.exc = "none"

\* the same for a call that may allocate: heap is the heap after the call
OkH(v, h) == [exc |-> "none", val |-> <<v>>, heap |-> h]

RaiseH(e, h) == [exc |-> e, val |-> <<>>, heap |-> h]

\* ------------------------------------------------------------------------
\* Strings
\* ------------------------------------------------------------------------
IsSpace(c) == c \in {" ", "\n", "\t"}

RECURSIVE LStrip(_)
LStrip(s) == IF s # <<>> /\ IsSpace(Head(s)) THEN LStrip(Tail(s)) ELSE s

RECURSIVE RStrip(_)
RStrip(s) ==
    IF s # <<>> /\ IsSpace(s[Len(s)]) THEN RStrip(SubSeq(s, 1, Len(s) - 1)) ELSE s

\* str.strip()
Strip(s) == RStrip(LStrip(s))

\* c in s, for a one-character c
Contains(s, c) == \E i \in 1..Len(s) : s[i] = c

PyStr(s) == [t |-> "str", s |-> s]

PyInt(n) == [t |-> "int", n |-> n]

IsStr(v) == v.t = "str"

\* truthiness of a scalar: not v
Falsy(v) == (v.t = "str" /\ v.s = <<>>) \/ (v.t = "int" /\ v.n = 0)

\* ------------------------------------------------------------------------
\* Enumerations
\* ------------------------------------------------------------------------
IRType ==
    [CALL_MATCHER |-> "call_matcher", VARIABLE_MATCHER |-> "variable_matcher",
     DATAFLOW |-> "dataflow", LOGIC_AND |-> "logic_and",
     LOGIC_OR |-> "logic_or", LOGIC_NOT |-> "logic_not"]

PropagationType ==
    [ASSIGNMENT |-> "assignment", FUNCTION_ARGS |-> "function_args",
     FUNCTION_RETURNS |-> "function_returns", STRING_CONCAT |-> "string_concat",
     STRING_FORMAT |-> "string_format"]

\* ------------------------------------------------------------------------
\* Propagation primitives and presets
\* ------------------------------------------------------------------------
\* PropagationPrimitive(prim_type): metadata or {} is the empty mapping
PropagationPrimitive(prim_type) == [type |-> prim_type, metadata |-> <<>>]

PropagationPrimitive_to_ir(p) ==
    [type |-> PropagationType[p.type], metadata |-> p.metadata]

\* create_propagation_list() going through the primitives last to first
create_propagation_list_reversed(primitives) ==
    [i \in 1..Len(primitives) |->
        PropagationPrimitive_to_ir(primitives[Len(primitives) + 1 - i])]

create_propagation_list(primitives) ==
    [i \in 1..Len(primitives) |-> PropagationPrimitive_to_ir(primitives[i])]

PresetMinimal ==
    <<PropagationPrimitive("ASSIGNMENT"), PropagationPrimitive("FUNCTION_ARGS")>>

\* PropagationPresets.standard() returning the primitives of phase 1 only
PresetStandard_phase1 ==
    <<PropagationPrimitive("ASSIGNMENT"), PropagationPrimitive("FUNCTION_ARGS"),
      PropagationPrimitive("FUNCTION_RETURNS")>>

PresetStandard ==
    <<PropagationPrimitive("ASSIGNMENT"), PropagationPrimitive("FUNCTION_ARGS"),
      PropagationPrimitive("FUNCTION_RETURNS"), PropagationPrimitive("STRING_CONCAT"),
      PropagationPrimitive("STRING_FORMAT")>>

\* PropagationPresets.comprehensive(): for the MVP, standard()
PresetComprehensive == PresetStandard

\* PropagationPresets.exhaustive(): comprehensive()
PresetExhaustive == PresetComprehensive

PresetNames == {"minimal", "standard", "comprehensive", "exhaustive"}

\* PropagationPresets.<name>()
PropagationPresets(name) ==
    CASE name = "minimal" -> PresetMinimal
      [] name = "standard" -> PresetStandard
      [] name = "comprehensive" -> PresetComprehensive
      [] name = "exhaustive" -> PresetExhaustive

\* ------------------------------------------------------------------------
\* Python scalars, lists and dicts used as matcher arguments
\* ------------------------------------------------------------------------
PyBool(b) == [t |-> "bool", b |-> b]

PyList(l) == [t |-> "list", l |-> l]

Digit == <<"0", "1", "2", "3", "4", "5", "6", "7", "8", "9">>

\* str(pos) of a dict key that is a str or a one-digit int
StrOf(k) == IF IsStr(k) THEN k.s ELSE <<Digit[k.n + 1]>>

\* A dict is a sequence of <<key, value>> pairs in insertion order.
DictHas(d, k) == \E i \in 1..Len(d) : d[i][1] = k

\* d[k] = v
DictSet(d, k, v) ==
    IF DictHas(d, k)
    THEN [i \in 1..Len(d) |-> IF d[i][1] = k THEN <<k, v>> ELSE d[i]]
    ELSE Append(d, <<k, v>>)

\* ------------------------------------------------------------------------
\* Call and variable matchers (codepathfinder/matchers.py)
\* ------------------------------------------------------------------------
HasWildcardChar(s) == Contains(s, "*") \/ Contains(s, "?")

\* x or {} for an Optional[dict] argument
OrEmptyDict(opt) == IF opt = <<>> THEN <<>> ELSE opt[1]
\* CallMatcher.__init__ looking for '*' in the first pattern only
CallMatcher_first_pattern(patterns, match_position, match_name) ==
    IF patterns = <<>> THEN Raise("ValueError")
    ELSE IF \E i \in 1..Len(patterns) : Falsy(patterns[i]) \/ ~IsStr(patterns[i])
    THEN Raise("ValueError")
    ELSE Ok([kind |-> "call",
             patterns |-> patterns,
             wildcard |-> Contains(patterns[1].s, "*"),
             match_position |-> OrEmptyDict(match_position),
             match_name |-> OrEmptyDict(match_name)])

\* CallMatcher.__init__ testing each pattern for emptiness only, not for its
\* class
CallMatcher_any_class(patterns, match_position, match_name) ==
    IF patterns = <<>> THEN Raise("ValueError")
    ELSE IF \E i \in 1..Len(patterns) : Falsy(patterns[i])
    THEN Raise("ValueError")
    ELSE Ok([kind |-> "call",
             patterns |-> patterns,
             wildcard |-> \E i \in 1..Len(patterns) :
                             IsStr(patterns[i]) /\ Contains(patterns[i].s, "*"),
             match_position |-> OrEmptyDict(match_position),
             match_name |-> OrEmptyDict(match_name)])

\* CallMatcher.__init__(*patterns, match_position=, match_name=)
CallMatcher(patterns, match_position, match_name) ==
    IF patterns = <<>> THEN Raise("ValueError")
    ELSE IF \E i \in 1..Len(patterns) : Falsy(patterns[i]) \/ ~IsStr(patterns[i])
    THEN Raise("ValueError")
    ELSE Ok([kind |-> "call",
             patterns |-> patterns,
             wildcard |-> \E i \in 1..Len(patterns) : Contains(patterns[i].s, "*"),
             match_position |-> OrEmptyDict(match_position),
             match_name |-> OrEmptyDict(match_name)])

\* CallMatcher._make_constraint(value)
make_constraint(value) ==
    [value |-> value,
     wildcard |->
        IF value.t = "str" THEN HasWildcardChar(value.s)
        ELSE IF value.t = "list"
        THEN \E i \in 1..Len(value.l) :
                value.l[i].t = "str" /\ HasWildcardChar(value.l[i].s)
        ELSE FALSE]

\* an entry of positionalArgs / keywordArgs whose wildcard is that of the value
\* alone
ArgConstraint_value_only(m, value) == make_constraint(value)

\* one entry of positionalArgs / keywordArgs
ArgConstraint(m, value) ==
    IF m.wildcard THEN [make_constraint(value) EXCEPT !.wildcard = TRUE]
    ELSE make_constraint(value)

RECURSIVE ArgsToIR(_, _, _)
\* the loop over match_position.items() / match_name.items(), acc the dict so far
ArgsToIR(m, items, acc) ==
    IF items = <<>> THEN acc
    ELSE ArgsToIR(m, Tail(items),
                  DictSet(acc, StrOf(Head(items)[1]), ArgConstraint(m, Head(items)[2])))

\* CallMatcher.to_ir() writing the two argument dicts also when they are empty
CallMatcher_to_ir_always_args(m) ==
    [type |-> IRType.CALL_MATCHER, patterns |-> m.patterns, wildcard |-> m.wildcard,
     matchMode |-> "any", positionalArgs |-> ArgsToIR(m, m.match_position, <<>>),
     keywordArgs |-> ArgsToIR(m, m.match_name, <<>>)]

\* CallMatcher.to_ir()
CallMatcher_to_ir(m) ==
    LET base == [type |-> IRType.CALL_MATCHER, patterns |-> m.patterns,
                 wildcard |-> m.wildcard, matchMode |-> "any"]
        pos == ArgsToIR(m, m.match_position, <<>>)
        kw == ArgsToIR(m, m.match_name, <<>>)
    IN  IF m.match_position # <<>> /\ m.match_name # <<>>
        THEN [type |-> base.type, patterns |-> base.patterns, wildcard |-> base.wildcard,
              matchMode |-> base.matchMode, positionalArgs |-> pos, keywordArgs |-> kw]
        ELSE IF m.match_position # <<>>
        THEN [type |-> base.type, patterns |-> base.patterns, wildcard |-> base.wildcard,
              matchMode |-> base.matchMode, positionalArgs |-> pos]
        ELSE IF m.match_name # <<>>
        THEN [type |-> base.type, patterns |-> base.patterns, wildcard |-> base.wildcard,
              matchMode |-> base.matchMode, keywordArgs |-> kw]
        ELSE base

\* CallMatcher.__init__(*patterns) of the python-dsl package
dsl_CallMatcher(patterns) ==
    IF patterns = <<>> THEN Raise("ValueError")
    ELSE IF \E i \in 1..Len(patterns) : Falsy(patterns[i]) \/ ~IsStr(patterns[i])
    THEN Raise("ValueError")
    ELSE Ok([kind |-> "dsl_call",
             patterns |-> patterns,
             wildcard |-> \E i \in 1..Len(patterns) : Contains(patterns[i].s, "*")])

\* CallMatcher.to_ir() of the python-dsl package
dsl_CallMatcher_to_ir(m) ==
    [type |-> IRType.CALL_MATCHER, patterns |-> m.patterns, wildcard |-> m.wildcard,
     match_mode |-> "any"]

\* VariableMatcher.__init__(pattern)
VariableMatcher(pattern) ==
    IF Falsy(pattern) \/ ~IsStr(pattern) THEN Raise("ValueError")
    ELSE Ok([kind |-> "variable", pattern |-> pattern,
             wildcard |-> Contains(pattern.s, "*")])

\* VariableMatcher.to_ir()
VariableMatcher_to_ir(m) ==
    [type |-> IRType.VARIABLE_MATCHER, pattern |-> m.pattern, wildcard |-> m.wildcard]

\* AndOperator.__init__ refusing the empty argument list only
AndOperator_one_enough(ms) ==
    IF Len(ms) < 1 THEN Raise("ValueError") ELSE Ok([kind |-> "and", matchers |-> ms])

\* ------------------------------------------------------------------------
\* Logical combinators (codepathfinder/logic.py)
\* ------------------------------------------------------------------------
AndOperator(ms) ==
    IF Len(ms) < 2 THEN Raise("ValueError") ELSE Ok([kind |-> "and", matchers |-> ms])

OrOperator(ms) ==
    IF Len(ms) < 2 THEN Raise("ValueError") ELSE Ok([kind |-> "or", matchers |-> ms])

NotOperator(m) == Ok([kind |-> "not", matcher |-> m])

\* ------------------------------------------------------------------------
\* State of one Python process
\* ------------------------------------------------------------------------
VARIABLES
    _rule_registry,         \* decorators._rule_registry: list of Rule
    _auto_execute_enabled,  \* decorators._auto_execute_enabled
    atexit_handlers,        \* number of _output_rules closures given to atexit.register
    func_calls,             \* per registered rule, how often its function was called
    hook_runs,              \* how often _output_rules has run
    stdout,                 \* the lines printed, each the list json.dumps was given
    phase,                  \* "running" until the interpreter exits, then "exited"
    raised,                 \* the exception the last operation let escape, or "none"
    _default_propagation,   \* PathfinderConfig._default_propagation: a list reference
    _default_scope,         \* PathfinderConfig._default_scope
    heap,                   \* the list objects of the process, by reference
    matchers,               \* the DataflowMatcher objects built at module level
    defined,                \* history: each application of @rule, [def, module]
                            \* and the default scope at that time
    flows_args,             \* history: per element of matchers, the propagates_through
                            \* and scope arguments it was built with, the list that
                            \* was last set as default if it took the default (dflt),
                            \* and the length of its propagation list then (seen)
    last_set,               \* what the defaults were last given: by the class body,
                            \* then by the latest setter calls that returned
    arg,                    \* the arguments of the call under study, <<>> when none
    ret,                    \* what that call and the calls on its result returned
    _dockerfile_rules,      \* container_decorators._dockerfile_rules
    _compose_rules,         \* container_decorators._compose_rules
    container_auto_execute_enabled,  \* container_decorators._auto_execute_enabled
    container_atexit_handlers,       \* number of container _output_rules closures
                                     \* given to atexit.register
    container_calls         \* history: the rule functions the container decorators
                            \* have called, in order

vars ==
    <<_rule_registry, _auto_execute_enabled, atexit_handlers, func_calls, hook_runs,
      stdout, phase, raised, _default_propagation, _default_scope, heap, matchers,
      defined, flows_args, last_set, arg, ret,
      _dockerfile_rules, _compose_rules, container_auto_execute_enabled,
      container_atexit_handlers, container_calls>>

\* PathfinderConfig.default_propagation setter storing list(value)
default_propagation_set_copying(value, h) ==
    [ref |-> Len(h) + 1, heap |-> Append(h, h[value])]

\* a default_propagation setter that puts the elements into the list that is
\* the default: self._default_propagation[:] = value
default_propagation_set_in_place(value, h) ==
    [ref |-> _default_propagation,
     heap |-> [h EXCEPT ![_default_propagation] = h[value]]]

\* ------------------------------------------------------------------------
\* Process defaults (codepathfinder/config.py)
\* ------------------------------------------------------------------------
\* PathfinderConfig.default_propagation setter: stores the caller's list itself;
\* h is the heap, the result the stored reference and the heap after the call
default_propagation_set(value, h) == [ref |-> value, heap |-> h]

\* PathfinderConfig.default_scope setter validating without assigning
default_scope_set_unassigned(old, value) ==
    IF value \notin {"local", "global"} THEN [exc |-> "ValueError", scope |-> old]
    ELSE [exc |-> "none", scope |-> old]

\* a default_scope setter that stores the value before it validates it
default_scope_set_stores_first(old, value) ==
    IF value \notin {"local", "global"} THEN [exc |-> "ValueError", scope |-> value]
    ELSE [exc |-> "none", scope |-> value]

\* PathfinderConfig.default_scope setter
default_scope_set(old, value) ==
    IF value \notin {"local", "global"} THEN [exc |-> "ValueError", scope |-> old]
    ELSE [exc |-> "none", scope |-> value]

get_default_propagation == _default_propagation

get_default_scope == _default_scope

\* ------------------------------------------------------------------------
\* Dataflow matcher (codepathfinder/dataflow.py)
\* ------------------------------------------------------------------------
\* A sources/sinks/sanitizers argument is one object or a list of objects.
Obj(o) == [t |-> "obj", o |-> o]

IsCallMatcher(a) == a.t = "obj" /\ a.o.kind = "call"

\* not a: only the empty list is falsy, matcher objects are truthy
IsEmptyArg(a) == a.t = "list" /\ a.l = <<>>

\* isinstance(a, CallMatcher) -> [a]
Normalize(a) == IF IsCallMatcher(a) THEN PyList(<<a.o>>) ELSE a

\* DataflowMatcher.__init__ testing "not propagates_through" for the default
DataflowMatcher_falsy(from_sources, to_sinks, sanitized_by, propagates_through, scope, h) ==
    LET sources == Normalize(from_sources)
        sinks == Normalize(to_sinks)
        sanitizers == IF sanitized_by = <<>> THEN PyList(<<>>)
                      ELSE Normalize(sanitized_by[1])
        prop == IF propagates_through = <<>> THEN get_default_propagation
                ELSE IF h[propagates_through[1]] = <<>> THEN get_default_propagation
                ELSE propagates_through[1]
        sc == IF scope = <<>> THEN get_default_scope ELSE scope[1]
    IN  IF IsEmptyArg(sources) THEN RaiseH("ValueError", h)
        ELSE IF IsEmptyArg(sinks) THEN RaiseH("ValueError", h)
        ELSE IF sc \notin {"local", "global"} THEN RaiseH("ValueError", h)
        ELSE OkH([kind |-> "dataflow", sources |-> sources, sinks |-> sinks,
                  sanitizers |-> sanitizers, propagates_through |-> prop,
                  scope |-> sc], h)

\* DataflowMatcher.__init__ checking the sources only: no test of the sinks
\* or of the scope
DataflowMatcher_unchecked(from_sources, to_sinks, sanitized_by, propagates_through, scope, h) ==
    LET sources == Normalize(from_sources)
        sinks == Normalize(to_sinks)
        sanitizers == IF sanitized_by = <<>> THEN PyList(<<>>)
                      ELSE Normalize(sanitized_by[1])
        prop == IF propagates_through = <<>> THEN get_default_propagation
                ELSE propagates_through[1]
        sc == IF scope = <<>> THEN get_default_scope ELSE scope[1]
    IN  IF IsEmptyArg(sources) THEN RaiseH("ValueError", h)
        ELSE OkH([kind |-> "dataflow", sources |-> sources, sinks |-> sinks,
                  sanitizers |-> sanitizers, propagates_through |-> prop,
                  scope |-> sc], h)

\* DataflowMatcher.__init__ taking "global" for an omitted scope, whatever the
\* default scope is when it is called
DataflowMatcher_fixed_scope(from_sources, to_sinks, sanitized_by, propagates_through, scope, h) ==
    LET sources == Normalize(from_sources)
        sinks == Normalize(to_sinks)
        sanitizers == IF sanitized_by = <<>> THEN PyList(<<>>)
                      ELSE Normalize(sanitized_by[1])
        prop == IF propagates_through = <<>> THEN get_default_propagation
                ELSE propagates_through[1]
        sc == IF scope = <<>> THEN "global" ELSE scope[1]
    IN  IF IsEmptyArg(sources) THEN RaiseH("ValueError", h)
        ELSE IF IsEmptyArg(sinks) THEN RaiseH("ValueError", h)
        ELSE IF sc \notin {"local", "global"} THEN RaiseH("ValueError", h)
        ELSE OkH([kind |-> "dataflow", sources |-> sources, sinks |-> sinks,
                  sanitizers |-> sanitizers, propagates_through |-> prop,
                  scope |-> sc], h)

\* DataflowMatcher.__init__; propagates_through is an Optional list reference
\* into the heap h, scope an Optional str
DataflowMatcher(from_sources, to_sinks, sanitized_by, propagates_through, scope, h) ==
    LET sources == Normalize(from_sources)
        sinks == Normalize(to_sinks)
        sanitizers == IF sanitized_by = <<>> THEN PyList(<<>>)
                      ELSE Normalize(sanitized_by[1])
        prop == IF propagates_through = <<>> THEN get_default_propagation
                ELSE propagates_through[1]
        sc == IF scope = <<>> THEN get_default_scope ELSE scope[1]
    IN  IF IsEmptyArg(sources) THEN RaiseH("ValueError", h)
        ELSE IF IsEmptyArg(sinks) THEN RaiseH("ValueError", h)
        ELSE IF sc \notin {"local", "global"} THEN RaiseH("ValueError", h)
        ELSE OkH([kind |-> "dataflow", sources |-> sources, sinks |-> sinks,
                  sanitizers |-> sanitizers, propagates_through |-> prop,
                  scope |-> sc], h)

\* ------------------------------------------------------------------------
\* Serialization to IR
\* ------------------------------------------------------------------------
\* hasattr(v, "to_ir")
HasToIR(v) ==
    v.kind \in {"call", "dsl_call", "variable", "dataflow", "and", "or", "not"}

RECURSIVE to_ir(_, _)
RECURSIVE list_to_ir(_, _, _)

\* [x.to_ir() for x in a], acc the list built so far; h the heap
list_to_ir(a, h, acc) ==
    IF a.t # "list" THEN Raise("TypeError")
    ELSE IF a.l = <<>> THEN Ok(acc)
    ELSE IF ~HasToIR(Head(a.l)) THEN Raise("AttributeError")
    ELSE LET r == to_ir(Head(a.l), h)
         IN  IF ~Returned(r) THEN r
             ELSE list_to_ir(PyList(Tail(a.l)), h, Append(acc, r.val[1]))

\* m.to_ir() for every matcher class; h the heap
to_ir(m, h) ==
    CASE m.kind = "call" -> Ok(CallMatcher_to_ir(m))
      [] m.kind = "dsl_call" -> Ok(dsl_CallMatcher_to_ir(m))
      [] m.kind = "variable" -> Ok(VariableMatcher_to_ir(m))
      [] m.kind = "dataflow" ->
            LET src == list_to_ir(m.sources, h, <<>>)
                snk == list_to_ir(m.sinks, h, <<>>)
                san == list_to_ir(m.sanitizers, h, <<>>)
            IN  IF ~Returned(src) THEN src
                ELSE IF ~Returned(snk) THEN snk
                ELSE IF ~Returned(san) THEN san
                ELSE Ok([type |-> IRType.DATAFLOW, sources |-> src.val[1],
                         sinks |-> snk.val[1], sanitizers |-> san.val[1],
                         propagation |-> create_propagation_list(h[m.propagates_through]),
                         scope |-> m.scope])
      [] m.kind \in {"and", "or"} ->
            LET ms == list_to_ir(PyList(m.matchers), h, <<>>)
            IN  IF ~Returned(ms) THEN ms
                ELSE Ok([type |-> IF m.kind = "and" THEN IRType.LOGIC_AND
                                  ELSE IRType.LOGIC_OR,
                         matchers |-> ms.val[1]])
      [] m.kind = "not" ->
            IF ~HasToIR(m.matcher) THEN Raise("AttributeError")
            ELSE LET r == to_ir(m.matcher, h)
                 IN  IF ~Returned(r) THEN r
                     ELSE Ok([type |-> IRType.LOGIC_NOT, matcher |-> r.val[1]])

\* serialize_ir(matcher) (codepathfinder/ir.py)
serialize_ir(matcher, h) ==
    IF ~HasToIR(matcher) THEN Raise("AttributeError") ELSE to_ir(matcher, h)

\* ------------------------------------------------------------------------
\* Decoded JSON values and validate_ir (codepathfinder/ir.py)
\* ------------------------------------------------------------------------
\* A decoded JSON value is None, a bool, an int, a str (a sequence of
\* characters), a list or a dict: a function from key strings to values.
PyNone == [t |-> "none"]

PyDict(d) == [t |-> "dict", d |-> d]

\* the characters of the tags and keywords the IR is written with
Chars(text) ==
    CASE text = "call_matcher" -> <<"c", "a", "l", "l", "_", "m", "a", "t", "c", "h", "e", "r">>
      [] text = "variable_matcher" ->
            <<"v", "a", "r", "i", "a", "b", "l", "e", "_", "m", "a", "t", "c", "h", "e", "r">>
      [] text = "dataflow" -> <<"d", "a", "t", "a", "f", "l", "o", "w">>
      [] text = "logic_and" -> <<"l", "o", "g", "i", "c", "_", "a", "n", "d">>
      [] text = "logic_or" -> <<"l", "o", "g", "i", "c", "_", "o", "r">>
      [] text = "logic_not" -> <<"l", "o", "g", "i", "c", "_", "n", "o", "t">>
      [] text = "assignment" -> <<"a", "s", "s", "i", "g", "n", "m", "e", "n", "t">>
      [] text = "function_args" ->
            <<"f", "u", "n", "c", "t", "i", "o", "n", "_", "a", "r", "g", "s">>
      [] text = "function_returns" ->
            <<"f", "u", "n", "c", "t", "i", "o", "n", "_", "r", "e", "t", "u", "r", "n", "s">>
      [] text = "string_concat" ->
            <<"s", "t", "r", "i", "n", "g", "_", "c", "o", "n", "c", "a", "t">>
      [] text = "string_format" ->
            <<"s", "t", "r", "i", "n", "g", "_", "f", "o", "r", "m", "a", "t">>
      [] text = "local" -> <<"l", "o", "c", "a", "l">>
      [] text = "global" -> <<"g", "l", "o", "b", "a", "l">>
      [] text = "any" -> <<"a", "n", "y">>
      [] text = "type" -> <<"t", "y", "p", "e">>

\* the values of the members of IRType
IRTypeValues == {IRType[k] : k \in DOMAIN IRType}

\* IRType(v) that takes every str for a member
IsIRTypeValue_any_str(v) == v.t = "str"

\* IRType(v) returns a member: v is the str value of one (anything else,
\* unhashable values included, raises ValueError)
IsIRTypeValue(v) == v.t = "str" /\ \E tag \in IRTypeValues : v.s = Chars(tag)

\* sub in s, for two str
HasSubstring(s, sub) ==
    \E i \in 1..(Len(s) - Len(sub) + 1) : SubSeq(s, i, i + Len(sub) - 1) = sub

\* key in d, for a dict d
HasKey(d, key) == key \in DOMAIN d

\* validate_ir(ir) on a dict, the dataflow branch without the tests of the
\* sinks and of the scope
validate_dict_sources_only(d) ==
    IF ~HasKey(d, "type") THEN FALSE
    ELSE IF ~IsIRTypeValue(d["type"]) THEN FALSE
    ELSE IF d["type"].s = Chars(IRType.CALL_MATCHER)
    THEN /\ HasKey(d, "patterns")
         /\ d["patterns"].t = "list"
         /\ Len(d["patterns"].l) > 0
         /\ HasKey(d, "wildcard")
         /\ d["wildcard"].t = "bool"
    ELSE IF d["type"].s = Chars(IRType.VARIABLE_MATCHER)
    THEN /\ HasKey(d, "pattern")
         /\ d["pattern"].t = "str"
         /\ Len(d["pattern"].s) > 0
         /\ HasKey(d, "wildcard")
         /\ d["wildcard"].t = "bool"
    ELSE IF d["type"].s = Chars(IRType.DATAFLOW)
    THEN /\ HasKey(d, "sources")
         /\ d["sources"].t = "list"
         /\ Len(d["sources"].l) > 0
         /\ HasKey(d, "sanitizers")
         /\ d["sanitizers"].t = "list"
         /\ HasKey(d, "propagation")
         /\ d["propagation"].t = "list"
    ELSE TRUE

\* validate_ir(ir) on a dict
validate_dict(d) ==
    IF ~HasKey(d, "type") THEN FALSE
    ELSE IF ~IsIRTypeValue(d["type"]) THEN FALSE
    ELSE IF d["type"].s = Chars(IRType.CALL_MATCHER)
    THEN /\ HasKey(d, "patterns")
         /\ d["patterns"].t = "list"
         /\ Len(d["patterns"].l) > 0
         /\ HasKey(d, "wildcard")
         /\ d["wildcard"].t = "bool"
    ELSE IF d["type"].s = Chars(IRType.VARIABLE_MATCHER)
    THEN /\ HasKey(d, "pattern")
         /\ d["pattern"].t = "str"
         /\ Len(d["pattern"].s) > 0
         /\ HasKey(d, "wildcard")
         /\ d["wildcard"].t = "bool"
    ELSE IF d["type"].s = Chars(IRType.DATAFLOW)
    THEN /\ HasKey(d, "sources")
         /\ d["sources"].t = "list"
         /\ Len(d["sources"].l) > 0
         /\ HasKey(d, "sinks")
         /\ d["sinks"].t = "list"
         /\ Len(d["sinks"].l) > 0
         /\ HasKey(d, "sanitizers")
         /\ d["sanitizers"].t = "list"
         /\ HasKey(d, "propagation")
         /\ d["propagation"].t = "list"
         /\ HasKey(d, "scope")
         /\ d["scope"].t = "str"
         /\ d["scope"].s \in {Chars("local"), Chars("global")}
    ELSE TRUE

\* validate_ir(ir): `"type" not in ir` is a key test on a dict, an element test
\* on a list, a substring test on a str and a TypeError on anything else;
\* ir["type"] is a TypeError on a list and on a str
validate_ir(ir) ==
    CASE ir.t = "dict" -> Ok(validate_dict(ir.d))
      [] ir.t = "list" ->
            IF \E i \in 1..Len(ir.l) : ir.l[i] = PyStr(Chars("type"))
            THEN Raise("TypeError") ELSE Ok(FALSE)
      [] ir.t = "str" ->
            IF HasSubstring(ir.s, Chars("type")) THEN Raise("TypeError") ELSE Ok(FALSE)
      [] OTHER -> Raise("TypeError")

\* The IR a to_ir() returns, as the host decodes it from the JSON text:
\* json.loads(json.dumps(ir)).  Every value gets the tag of its JSON type, the
\* keys of the argument dicts are strings, the nesting is kept.
RECURSIVE Join(_)
Join(s) == IF s = <<>> THEN "" ELSE Head(s) \o Join(Tail(s))

\* the decoded dict of positionalArgs / keywordArgs, a sequence of <<key, constraint>>
args_json(items) ==
    PyDict([k \in {Join(items[i][1]) : i \in 1..Len(items)} |->
              LET c == (CHOOSE i \in 1..Len(items) : Join(items[i][1]) = k)
              IN  PyDict([value |-> items[c][2].value,
                          wildcard |-> PyBool(items[c][2].wildcard)])])

RECURSIVE json_value(_)
RECURSIVE json_field(_, _)

\* the decoded value of the field k of an IR node, v its value in the node
json_field(k, v) ==
    CASE k \in {"type", "matchMode", "match_mode", "scope"} -> PyStr(Chars(v))
      [] k = "patterns" -> PyList(v)
      [] k = "pattern" -> v
      [] k = "wildcard" -> PyBool(v)
      [] k \in {"positionalArgs", "keywordArgs"} -> args_json(v)
      [] k \in {"sources", "sinks", "sanitizers", "matchers"} ->
            PyList([i \in 1..Len(v) |-> json_value(v[i])])
      [] k = "matcher" -> json_value(v)
      [] k = "propagation" ->
            PyList([i \in 1..Len(v) |->
                      PyDict([type |-> PyStr(Chars(v[i].type)),
                              metadata |-> PyDict(v[i].metadata)])])

json_value(ir) == PyDict([k \in DOMAIN ir |-> json_field(k, ir[k])])

RECURSIVE IRNodes(_)
\* the matcher nodes of the IR tree ir: ir and the nodes below it
IRNodes(ir) ==
    LET below(k) == IF k \in DOMAIN ir
                    THEN UNION {IRNodes(ir[k][i]) : i \in 1..Len(ir[k])}
                    ELSE {}
    IN  {ir} \cup below("sources") \cup below("sinks") \cup below("sanitizers")
             \cup below("matchers")
             \cup (IF "matcher" \in DOMAIN ir THEN IRNodes(ir["matcher"]) ELSE {})

\* ------------------------------------------------------------------------
\* Rules, the registry and the exit hook (codepathfinder/decorators.py)
\* ------------------------------------------------------------------------
CallEval == CallMatcher(<<PyStr(<<"e", "v", "a", "l">>)>>, <<>>, <<>>).val[1]

CallSource == CallMatcher(<<PyStr(<<"r", ".", "*">>)>>, <<>>, <<>>).val[1]

CallSink == CallMatcher(<<PyStr(<<"e", "x", "e", "c">>)>>, <<>>, <<>>).val[1]

\* The rule functions of the modelled rule files: __name__, __doc__ (Optional
\* str) and the expression the body returns.
Funcs ==
    { [name |-> "detect_eval", doc |-> << <<" ", "E", "\n">> >>, body |-> "calls"],
      [name |-> "detect_flow", doc |-> <<>>, body |-> "flows"],
      [name |-> "no_patterns", doc |-> << <<"N">> >>, body |-> "calls_nothing"],
      [name |-> "not_a_matcher", doc |-> << <<>> >>, body |-> "number"] }

\* func(): what the body evaluates to when it is called now, on heap h
call_func(f, h) ==
    CASE f.body = "calls" -> OkH(CallEval, h)
      [] f.body = "flows" ->
            DataflowMatcher(Obj(CallSource), Obj(CallSink), <<>>, <<>>, <<>>, h)
      [] f.body = "calls_nothing" -> RaiseH(CallMatcher(<<>>, <<>>, <<>>).exc, h)
      [] f.body = "number" -> OkH([kind |-> "int"], h)

\* Rule.__init__: cwe and owasp are Optional str
Rule(id, severity, func, cwe, owasp) ==
    [id |-> id, name |-> func.name, severity |-> severity, cwe |-> cwe,
     owasp |-> owasp,
     description |-> IF func.doc = <<>> \/ func.doc[1] = <<>> THEN <<>> ELSE func.doc[1],
     func |-> func]

\* Rule.execute() without the strip() of the description
Rule_execute_unstripped(r, h) ==
    LET m == call_func(r.func, h)
    IN  IF ~Returned(m) THEN Raise(m.exc)
        ELSE LET ir == serialize_ir(m.val[1], m.heap)
             IN  IF ~Returned(ir) THEN ir
                 ELSE Ok([rule |-> [id |-> r.id, name |-> r.name,
                                    severity |-> r.severity, cwe |-> r.cwe,
                                    owasp |-> r.owasp, description |-> r.description],
                          matcher |-> ir.val[1]])

\* Rule.execute() catching what the rule function raises
Rule_execute_swallowing(r, h) ==
    LET m == call_func(r.func, h)
        meta == [id |-> r.id, name |-> r.name, severity |-> r.severity,
                 cwe |-> r.cwe, owasp |-> r.owasp,
                 description |-> Strip(r.description)]
    IN  IF ~Returned(m) THEN Ok([rule |-> meta, matcher |-> [type |-> "error"]])
        ELSE LET ir == serialize_ir(m.val[1], m.heap)
             IN  IF ~Returned(ir) THEN ir
                 ELSE Ok([rule |-> meta, matcher |-> ir.val[1]])

\* Rule.execute(); h the heap
Rule_execute(r, h) ==
    LET m == call_func(r.func, h)
    IN  IF ~Returned(m) THEN Raise(m.exc)
        ELSE LET ir == serialize_ir(m.val[1], m.heap)
             IN  IF ~Returned(ir) THEN ir
                 ELSE Ok([rule |-> [id |-> r.id, name |-> r.name,
                                    severity |-> r.severity, cwe |-> r.cwe,
                                    owasp |-> r.owasp,
                                    description |-> Strip(r.description)],
                          matcher |-> ir.val[1]])

\* _enable_auto_execute() without the early return
enable_auto_execute_unguarded(enabled, handlers) ==
    [enabled |-> TRUE, handlers |-> handlers + 1]

\* _enable_auto_execute(), on the pair (_auto_execute_enabled, atexit handlers)
enable_auto_execute(enabled, handlers) ==
    IF enabled THEN [enabled |-> enabled, handlers |-> handlers]
    ELSE [enabled |-> TRUE, handlers |-> handlers + 1]

\* _register_rule() arming the hook whatever module the caller is
register_rule_always_arms(reg, rule_obj, caller_name, enabled, handlers) ==
    LET e == enable_auto_execute(enabled, handlers)
    IN  [registry |-> Append(reg, rule_obj), enabled |-> e.enabled,
         handlers |-> e.handlers]

\* _register_rule() with insert(0, rule_obj) in place of append(rule_obj)
register_rule_prepending(reg, rule_obj, caller_name, enabled, handlers) ==
    LET e == IF caller_name = "__main__" THEN enable_auto_execute(enabled, handlers)
             ELSE [enabled |-> enabled, handlers |-> handlers]
    IN  [registry |-> <<rule_obj>> \o reg, enabled |-> e.enabled,
         handlers |-> e.handlers]

\* _register_rule(rule_obj); caller_name is sys._getframe(2).f_globals["__name__"]
register_rule(reg, rule_obj, caller_name, enabled, handlers) ==
    LET e == IF caller_name = "__main__" THEN enable_auto_execute(enabled, handlers)
             ELSE [enabled |-> enabled, handlers |-> handlers]
    IN  [registry |-> Append(reg, rule_obj), enabled |-> e.enabled,
         handlers |-> e.handlers]

\* the decorator calling func at once, and registering only when it returns
decorator_eager(a, func, caller_name, st) ==
    LET m == call_func(func, heap)
        r == register_rule(st.registry, Rule(a.id, a.severity, func, a.cwe, a.owasp),
                           caller_name, st.enabled, st.handlers)
    IN  IF ~Returned(m)
        THEN [registry |-> st.registry, enabled |-> st.enabled,
              handlers |-> st.handlers, func_calls |-> st.func_calls, exc |-> m.exc]
        ELSE [registry |-> r.registry, enabled |-> r.enabled, handlers |-> r.handlers,
              func_calls |-> Append(st.func_calls, 1), exc |-> "none"]

\* rule(id, severity, cwe, owasp)(func): the decorator applied to func.  st is
\* [registry, enabled, handlers, func_calls]; the result adds exc.
decorator(a, func, caller_name, st) ==
    LET r == register_rule(st.registry, Rule(a.id, a.severity, func, a.cwe, a.owasp),
                           caller_name, st.enabled, st.handlers)
    IN  [registry |-> r.registry, enabled |-> r.enabled, handlers |-> r.handlers,
         func_calls |-> Append(st.func_calls, 0), exc |-> "none"]

\* index of the first rule whose execute() raises, 0 when none does
FirstFailure(rs) ==
    IF \E i \in 1..Len(rs) : ~Returned(rs[i])
    THEN CHOOSE i \in 1..Len(rs) : ~Returned(rs[i]) /\ \A j \in 1..(i - 1) : Returned(rs[j])
    ELSE 0

\* _output_rules() without the early return on an empty registry
output_rules_no_empty_check(reg, h, st) ==
    LET rs == [i \in 1..Len(reg) |-> Rule_execute(reg[i], h)]
        k == FirstFailure(rs)
    IN  IF k # 0
        THEN [stdout |-> st.stdout,
              func_calls |-> [i \in 1..Len(reg) |->
                                IF i <= k THEN st.func_calls[i] + 1
                                ELSE st.func_calls[i]],
              exc |-> rs[k].exc, runs |-> st.runs + 1]
        ELSE [stdout |-> Append(st.stdout, [i \in 1..Len(reg) |-> rs[i].val[1]]),
              func_calls |-> [i \in 1..Len(reg) |-> st.func_calls[i] + 1],
              exc |-> st.exc, runs |-> st.runs + 1]

\* _output_rules() printing the record of each rule as soon as it has it
output_rules_streaming(reg, h, st) ==
    IF reg = <<>> THEN [st EXCEPT !.runs = @ + 1]
    ELSE LET rs == [i \in 1..Len(reg) |-> Rule_execute(reg[i], h)]
             k == FirstFailure(rs)
         IN  IF k # 0
             THEN [stdout |-> IF k = 1 THEN st.stdout
                              ELSE Append(st.stdout, [i \in 1..(k - 1) |-> rs[i].val[1]]),
                   func_calls |-> [i \in 1..Len(reg) |->
                                     IF i <= k THEN st.func_calls[i] + 1
                                     ELSE st.func_calls[i]],
                   exc |-> rs[k].exc, runs |-> st.runs + 1]
             ELSE [stdout |-> Append(st.stdout, [i \in 1..Len(reg) |-> rs[i].val[1]]),
                   func_calls |-> [i \in 1..Len(reg) |-> st.func_calls[i] + 1],
                   exc |-> st.exc, runs |-> st.runs + 1]

\* _output_rules(): st is [stdout, func_calls, exc, runs]; h the heap
output_rules(reg, h, st) ==
    IF reg = <<>> THEN [st EXCEPT !.runs = @ + 1]
    ELSE LET rs == [i \in 1..Len(reg) |-> Rule_execute(reg[i], h)]
             k == FirstFailure(rs)
         IN  IF k # 0
             THEN [stdout |-> st.stdout,
                   func_calls |-> [i \in 1..Len(reg) |->
                                     IF i <= k THEN st.func_calls[i] + 1
                                     ELSE st.func_calls[i]],
                   exc |-> rs[k].exc, runs |-> st.runs + 1]
             ELSE [stdout |-> Append(st.stdout, [i \in 1..Len(reg) |-> rs[i].val[1]]),
                   func_calls |-> [i \in 1..Len(reg) |-> st.func_calls[i] + 1],
                   exc |-> st.exc, runs |-> st.runs + 1]

RECURSIVE run_exitfuncs(_, _, _, _)
\* interpreter exit: every handler given to atexit.register runs, an exception
\* escaping one handler is reported and the next handler still runs
run_exitfuncs(n, reg, h, st) ==
    IF n = 0 THEN st ELSE run_exitfuncs(n - 1, reg, h, output_rules(reg, h, st))

\* ------------------------------------------------------------------------
\* Inputs
\* ------------------------------------------------------------------------
FuncNamed(n) == CHOOSE f \in Funcs : f.name = n

\* The rule definitions of the modelled rule files: rule(...) arguments and
\* the decorated function.
RuleDefs ==
    { [id |-> "eval-1", severity |-> "high", cwe |-> <<>>, owasp |-> <<>>,
       func |-> FuncNamed("detect_eval")],
      [id |-> "flow-1", severity |-> "critical", cwe |-> <<"CWE-89">>,
       owasp |-> <<"A03:2021">>, func |-> FuncNamed("detect_flow")],
      [id |-> "bad-1", severity |-> "low", cwe |-> <<"CWE-94">>, owasp |-> <<>>,
       func |-> FuncNamed("no_patterns")],
      [id |-> "bad-2", severity |-> "medium", cwe |-> <<>>, owasp |-> <<>>,
       func |-> FuncNamed("not_a_matcher")] }

\* __name__ of the module a rule is defined in
ModuleNames == {"__main__", "rules_lib"}

\* the lists given to set_default_propagation
PropagationArgs == {<<>>, PresetMinimal}

ScopeArgs == {"local", "global", "invalid"}

\* the explicit scope arguments given to flows()
ExplicitScope == {"local", "global", "invalid"}

\* the explicit propagates_through lists given to flows()
ExplicitPropagation == {<<>>, <<PropagationPrimitive("STRING_CONCAT")>>}

SourceArgs == {Obj(CallSource), PyList(<<>>)}

SinkArgs == {PyList(<<CallSink>>)}

RECURSIVE SumSeq(_)
SumSeq(q) == IF q = <<>> THEN 0 ELSE Head(q) + SumSeq(Tail(q))

Appended == PropagationPrimitive("FUNCTION_RETURNS")

\* how many elements in-place appends have added to the lists of the heap
NumAppended(h) ==
    SumSeq([r \in 1..Len(h) |->
              Cardinality({i \in 1..Len(h[r]) : h[r][i] = Appended})])

\* lists allocated after the class body, matchers built and appends made
ConfigCalls(h, ms) == (Len(h) - 1) + Len(ms) + NumAppended(h)

\* a class body that starts the default scope at "local"
PathfinderConfig_default_scope_local == "local"

\* PathfinderConfig._default_scope as the class body sets it
PathfinderConfig_default_scope == "global"

\* ------------------------------------------------------------------------
\* Initial state: the modules are imported, nothing is registered
\* ------------------------------------------------------------------------
InitProcess ==
    /\ _rule_registry = <<>>
    /\ _auto_execute_enabled = FALSE
    /\ atexit_handlers = 0
    /\ func_calls = <<>>
    /\ hook_runs = 0
    /\ stdout = <<>>
    /\ phase = "running"
    /\ raised = "none"
    /\ heap = << <<>> >>
    /\ _default_propagation = 1
    /\ _default_scope = PathfinderConfig_default_scope
    /\ matchers = <<>>
    /\ defined = <<>>
    /\ flows_args = <<>>
    /\ last_set = [propagation |-> 1, primitives |-> <<>>,
                   scope |-> PathfinderConfig_default_scope]
    /\ _dockerfile_rules = <<>>
    /\ _compose_rules = <<>>
    /\ container_auto_execute_enabled = FALSE
    /\ container_atexit_handlers = 0
    /\ container_calls = <<>>

Init ==
    /\ InitProcess
    /\ arg = <<>>
    /\ ret = <<>>

lifecycle_vars ==
    <<_rule_registry, _auto_execute_enabled, atexit_handlers, func_calls, hook_runs,
      stdout, defined>>

config_vars ==
    <<_default_propagation, _default_scope, heap, matchers, flows_args, last_set>>

call_vars == <<arg, ret>>

container_vars ==
    <<_dockerfile_rules, _compose_rules, container_auto_execute_enabled,
      container_atexit_handlers, container_calls>>

\* ------------------------------------------------------------------------
\* Operations
\* ------------------------------------------------------------------------
\* @rule(...) applied to a function in module caller_name
DefineRule(d, caller_name) ==
    /\ phase = "running"
    /\ Len(_rule_registry) < MaxRules
    /\ LET r == decorator(d, d.func, caller_name,
                          [registry |-> _rule_registry,
                           enabled |-> _auto_execute_enabled,
                           handlers |-> atexit_handlers,
                           func_calls |-> func_calls])
       IN  /\ _rule_registry' = r.registry
           /\ _auto_execute_enabled' = r.enabled
           /\ atexit_handlers' = r.handlers
           /\ func_calls' = r.func_calls
           /\ raised' = r.exc
    /\ defined' = Append(defined, [def |-> d, module |-> caller_name,
                                   default_scope |-> get_default_scope])
    /\ UNCHANGED <<hook_runs, stdout, phase>>
    /\ UNCHANGED config_vars
    /\ UNCHANGED call_vars
    /\ UNCHANGED container_vars

\* rule_obj.execute() called by the rule file or its host
Execute(i) ==
    /\ phase = "running"
    /\ i \in 1..Len(_rule_registry)
    /\ SumSeq(func_calls) < MaxExecutes
    /\ func_calls' = [func_calls EXCEPT ![i] = @ + 1]
    /\ raised' = Rule_execute(_rule_registry[i], heap).exc
    /\ UNCHANGED <<_rule_registry, _auto_execute_enabled, atexit_handlers, hook_runs,
                   stdout, phase, defined>>
    /\ UNCHANGED config_vars
    /\ UNCHANGED call_vars
    /\ UNCHANGED container_vars

\* _enable_auto_execute() called directly
EnableAutoExecute ==
    /\ phase = "running"
    /\ LET e == enable_auto_execute(_auto_execute_enabled, atexit_handlers)
       IN  /\ _auto_execute_enabled' = e.enabled
           /\ atexit_handlers' = e.handlers
    /\ raised' = "none"
    /\ UNCHANGED <<_rule_registry, func_calls, hook_runs, stdout, phase, defined>>
    /\ UNCHANGED config_vars
    /\ UNCHANGED call_vars
    /\ UNCHANGED container_vars

\* the interpreter exits normally and runs the atexit handlers
AtExit ==
    /\ phase = "running"
    /\ phase' = "exited"
    /\ LET r == run_exitfuncs(atexit_handlers, _rule_registry, heap,
                              [stdout |-> stdout, func_calls |-> func_calls,
                               exc |-> "none", runs |-> hook_runs])
       IN  /\ stdout' = r.stdout
           /\ func_calls' = r.func_calls
           /\ raised' = r.exc
           /\ hook_runs' = r.runs
    /\ UNCHANGED <<_rule_registry, _auto_execute_enabled, atexit_handlers, defined>>
    /\ UNCHANGED config_vars
    /\ UNCHANGED call_vars
    /\ UNCHANGED container_vars

\* set_default_propagation(primitives), primitives a list the caller has built
SetDefaultPropagation(primitives) ==
    /\ phase = "running"
    /\ ConfigCalls(heap, matchers) < MaxConfigCalls
    /\ LET r == default_propagation_set(Len(heap) + 1, Append(heap, primitives))
       IN  /\ heap' = r.heap
           /\ _default_propagation' = r.ref
    /\ raised' = "none"
    /\ last_set' = [last_set EXCEPT !.propagation = Len(heap) + 1,
                                    !.primitives = primitives]
    /\ UNCHANGED <<_default_scope, matchers, flows_args, phase>>
    /\ UNCHANGED lifecycle_vars
    /\ UNCHANGED call_vars
    /\ UNCHANGED container_vars

\* set_default_scope(scope)
SetDefaultScope(scope) ==
    /\ phase = "running"
    /\ LET r == default_scope_set(_default_scope, scope)
       IN  /\ _default_scope' = r.scope
           /\ raised' = r.exc
           /\ last_set' = IF r.exc = "none" THEN [last_set EXCEPT !.scope = scope]
                          ELSE last_set
    /\ UNCHANGED <<_default_propagation, heap, matchers, flows_args, phase>>
    /\ UNCHANGED lifecycle_vars
    /\ UNCHANGED call_vars
    /\ UNCHANGED container_vars

\* flows(...) at module level; an explicit propagates_through is a list the
\* caller builds for the call
Flows(from_sources, to_sinks, propagates_through, scope) ==
    /\ phase = "running"
    /\ ConfigCalls(heap, matchers) < MaxConfigCalls
    /\ propagates_through # <<>> => ConfigCalls(heap, matchers) + 1 < MaxConfigCalls
    /\ LET h == IF propagates_through = <<>> THEN heap
                ELSE Append(heap, propagates_through[1])
           ref == IF propagates_through = <<>> THEN <<>> ELSE <<Len(h)>>
           r == DataflowMatcher(from_sources, to_sinks, <<>>, ref, scope, h)
       IN  /\ raised' = r.exc
           /\ matchers' = IF Returned(r) THEN Append(matchers, r.val[1]) ELSE matchers
           /\ heap' = IF Returned(r) THEN r.heap ELSE heap
           /\ flows_args' = IF Returned(r)
                            THEN Append(flows_args,
                                        [propagates_through |-> ref, scope |-> scope,
                                         dflt |-> IF ref = <<>>
                                                  THEN last_set.propagation ELSE 0,
                                         seen |-> Len(r.heap[r.val[1].propagates_through])])
                            ELSE flows_args
    /\ UNCHANGED <<_default_propagation, _default_scope, last_set, phase>>
    /\ UNCHANGED lifecycle_vars
    /\ UNCHANGED call_vars
    /\ UNCHANGED container_vars

\* lst.append(...) on a list the caller holds: one it built, one returned by
\* get_default_propagation(), or a matcher's propagates_through
ListAppend(ref) ==
    /\ phase = "running"
    /\ ref \in 1..Len(heap)
    /\ ConfigCalls(heap, matchers) < MaxConfigCalls
    /\ heap' = [heap EXCEPT ![ref] = Append(@, Appended)]
    /\ raised' = "none"
    /\ UNCHANGED <<_default_propagation, _default_scope, matchers, flows_args,
                   last_set, phase>>
    /\ UNCHANGED lifecycle_vars
    /\ UNCHANGED call_vars
    /\ UNCHANGED container_vars

\* ------------------------------------------------------------------------
\* Specifications
\* ------------------------------------------------------------------------
\* A rule file run by the interpreter: rule definitions, execute() calls,
\* changes of the default scope, and the exit.
Next ==
    \/ \E d \in RuleDefs, c \in ModuleNames : DefineRule(d, c)
    \/ \E i \in 1..MaxRules : Execute(i)
    \/ \E s \in ScopeArgs : SetDefaultScope(s)
    \/ AtExit

Spec == Init /\ [][Next]_vars

\* The same with _enable_auto_execute() also called directly, as the tests do.
NextInternal ==
    \/ \E d \in RuleDefs, c \in ModuleNames : DefineRule(d, c)
    \/ \E i \in 1..MaxRules : Execute(i)
    \/ \E s \in ScopeArgs : SetDefaultScope(s)
    \/ EnableAutoExecute
    \/ AtExit

SpecInternal == Init /\ [][NextInternal]_vars

\* The defaults and the dataflow matchers built from them.
NextConfig ==
    \/ \E p \in PropagationArgs : SetDefaultPropagation(p)
    \/ \E s \in ScopeArgs : SetDefaultScope(s)
    \/ \E a \in SourceArgs, b \in SinkArgs,
          p \in {<<>>} \cup {<<x>> : x \in ExplicitPropagation},
          s \in {<<>>} \cup {<<x>> : x \in ExplicitScope} : Flows(a, b, p, s)
    \/ \E r \in 1..Len(heap) : ListAppend(r)

SpecConfig == Init /\ [][NextConfig]_vars

\* A process that never calls a setter: it builds matchers and appends to the
\* lists it holds.
NextFresh ==
    \/ \E a \in SourceArgs, b \in SinkArgs,
          p \in {<<>>} \cup {<<x>> : x \in ExplicitPropagation},
          s \in {<<>>} \cup {<<x>> : x \in ExplicitScope} : Flows(a, b, p, s)
    \/ \E r \in 1..Len(heap) : ListAppend(r)

SpecFresh == Init /\ [][NextFresh]_vars

\* ------------------------------------------------------------------------
\* Container rules (rules/container_matchers.py, rules/container_decorators.py)
\* ------------------------------------------------------------------------
\* Matcher(type=, params=); params is a dict, here a function from its keys
Matcher(type, params) == [kind |-> "container_matcher", type |-> type, params |-> params]

\* Matcher.to_dict(): {"type": self.type, **self.params}
Matcher_to_dict(m) ==
    [k \in {"type"} \cup DOMAIN m.params |->
        IF k \in DOMAIN m.params THEN m.params[k] ELSE m.type]

\* missing(instruction=)
missing(instruction) == Matcher("missing_instruction", [instruction |-> instruction])

\* service_has(key=, equals=)
service_has(key, equals) == Matcher("service_has", [key |-> key, equals |-> equals])

\* The rule functions of the modelled container rule files: __name__ and what
\* the body does.
ContainerFuncs ==
    { [name |-> "container_runs_as_root", body |-> "missing"],
      [name |-> "privileged_service", body |-> "service_has"],
      [name |-> "dict_rule", body |-> "dict"],
      [name |-> "bad_rule", body |-> "str"],
      [name |-> "code_rule", body |-> "calls"],
      [name |-> "broken_rule", body |-> "raise"] }

\* func() of a container rule function
call_container_func(f) ==
    CASE f.body = "missing" -> Ok(missing("USER"))
      [] f.body = "service_has" -> Ok(service_has("privileged", TRUE))
      [] f.body = "dict" -> Ok([kind |-> "dict", d |-> [type |-> "custom", param |-> "value"]])
      [] f.body = "str" -> Ok([kind |-> "str", s |-> "not a matcher"])
      [] f.body = "calls" -> Ok(CallEval)
      [] f.body = "raise" -> Raise("RuntimeError")

\* func.__name__.replace("_", " ").title()
TitleOf(name) ==
    CASE name = "container_runs_as_root" -> "Container Runs As Root"
      [] name = "privileged_service" -> "Privileged Service"
      [] name = "dict_rule" -> "Dict Rule"
      [] name = "bad_rule" -> "Bad Rule"
      [] name = "code_rule" -> "Code Rule"
      [] name = "broken_rule" -> "Broken Rule"

\* RuleMetadata(...) as the decorators fill it; a holds the decorator arguments
RuleMetadata(a, func, file_pattern) ==
    [id |-> a.id,
     name |-> IF a.name # "" THEN a.name ELSE TitleOf(func.name),
     severity |-> a.severity, category |-> a.category, cwe |-> a.cwe, cve |-> a.cve,
     tags |-> a.tags,
     message |-> IF a.message # "" THEN a.message
                 ELSE "Security issue detected by " \o a.id,
     file_pattern |-> file_pattern]

\* container_decorators._enable_auto_execute()
container_enable_auto_execute(enabled, handlers) ==
    IF enabled THEN [enabled |-> enabled, handlers |-> handlers]
    ELSE [enabled |-> TRUE, handlers |-> handlers + 1]

\* container_decorators._register_rule()
container_register_rule(caller_name, enabled, handlers) ==
    IF caller_name = "__main__" THEN container_enable_auto_execute(enabled, handlers)
    ELSE [enabled |-> enabled, handlers |-> handlers]

\* a decorator appending the definition before it looks at what func returned
container_decorator_registers_first(a, func, file_pattern, caller_name, st) ==
    LET r == call_container_func(func)
        calls == Append(st.calls, func.name)
        meta == RuleMetadata(a, func, file_pattern)
        e == container_register_rule(caller_name, st.enabled, st.handlers)
    IN  IF ~Returned(r)
        THEN [rules |-> st.rules, enabled |-> st.enabled, handlers |-> st.handlers,
              calls |-> calls, exc |-> r.exc]
        ELSE IF r.val[1].kind \notin {"container_matcher", "dict"}
        THEN [rules |-> Append(st.rules, [metadata |-> meta, matcher |-> <<>>,
                                          rule_function |-> func.name]),
              enabled |-> st.enabled, handlers |-> st.handlers,
              calls |-> calls, exc |-> "ValueError"]
        ELSE [rules |-> Append(st.rules,
                               [metadata |-> meta,
                                matcher |-> IF r.val[1].kind = "dict" THEN r.val[1].d
                                            ELSE Matcher_to_dict(r.val[1]),
                                rule_function |-> func.name]),
              enabled |-> e.enabled, handlers |-> e.handlers,
              calls |-> calls, exc |-> "none"]

\* decorator(func) of dockerfile_rule(...) and of compose_rule(...): st holds
\* the registry of the decorator, the flag, the handlers and the calls made
container_decorator(a, func, file_pattern, caller_name, st) ==
    LET r == call_container_func(func)
        calls == Append(st.calls, func.name)
    IN  IF ~Returned(r)
        THEN [rules |-> st.rules, enabled |-> st.enabled, handlers |-> st.handlers,
              calls |-> calls, exc |-> r.exc]
        ELSE IF r.val[1].kind \notin {"container_matcher", "dict"}
        THEN [rules |-> st.rules, enabled |-> st.enabled, handlers |-> st.handlers,
              calls |-> calls, exc |-> "ValueError"]
        ELSE LET e == container_register_rule(caller_name, st.enabled, st.handlers)
             IN  [rules |-> Append(st.rules,
                                   [metadata |-> RuleMetadata(a, func, file_pattern),
                                    matcher |-> IF r.val[1].kind = "dict" THEN r.val[1].d
                                                ELSE Matcher_to_dict(r.val[1]),
                                    rule_function |-> func.name]),
                  enabled |-> e.enabled, handlers |-> e.handlers,
                  calls |-> calls, exc |-> "none"]

\* the decorator arguments of the modelled container rule files
ContainerRuleArgs ==
    { [id |-> "DOCKER-001", name |-> "", severity |-> "HIGH", category |-> "security",
       cwe |-> "CWE-250", cve |-> "", tags |-> "", message |-> ""],
      [id |-> "TEST-002", name |-> "Test Rule Name", severity |-> "MEDIUM",
       category |-> "best-practice", cwe |-> "", cve |-> "", tags |-> "",
       message |-> "Custom message"] }

\* @dockerfile_rule(...) applied to func in the module caller_name
DockerfileRule(a, func, caller_name) ==
    /\ phase = "running"
    /\ Len(container_calls) < MaxDecorations
    /\ LET r == container_decorator(a, func, "Dockerfile*", caller_name,
                                    [rules |-> _dockerfile_rules,
                                     enabled |-> container_auto_execute_enabled,
                                     handlers |-> container_atexit_handlers,
                                     calls |-> container_calls])
       IN  /\ _dockerfile_rules' = r.rules
           /\ container_auto_execute_enabled' = r.enabled
           /\ container_atexit_handlers' = r.handlers
           /\ container_calls' = r.calls
           /\ raised' = r.exc
    /\ UNCHANGED <<_compose_rules, phase, lifecycle_vars, config_vars, call_vars>>

\* @compose_rule(...) applied to func in the module caller_name
ComposeRule(a, func, caller_name) ==
    /\ phase = "running"
    /\ Len(container_calls) < MaxDecorations
    /\ LET r == container_decorator(a, func, "**/docker-compose*.yml", caller_name,
                                    [rules |-> _compose_rules,
                                     enabled |-> container_auto_execute_enabled,
                                     handlers |-> container_atexit_handlers,
                                     calls |-> container_calls])
       IN  /\ _compose_rules' = r.rules
           /\ container_auto_execute_enabled' = r.enabled
           /\ container_atexit_handlers' = r.handlers
           /\ container_calls' = r.calls
           /\ raised' = r.exc
    /\ UNCHANGED <<_dockerfile_rules, phase, lifecycle_vars, config_vars, call_vars>>

\* clear_rules()
ClearRules ==
    /\ phase = "running"
    /\ _dockerfile_rules' = <<>>
    /\ _compose_rules' = <<>>
    /\ raised' = "none"
    /\ UNCHANGED <<container_auto_execute_enabled, container_atexit_handlers,
                   container_calls, phase, lifecycle_vars, config_vars, call_vars>>

\* A container rule file run by the interpreter.
NextContainer ==
    \/ \E a \in ContainerRuleArgs, f \in ContainerFuncs, c \in ModuleNames :
          DockerfileRule(a, f, c)
    \/ \E a \in ContainerRuleArgs, f \in ContainerFuncs, c \in ModuleNames :
          ComposeRule(a, f, c)
    \/ ClearRules

SpecContainer == Init /\ [][NextContainer]_vars

\* ------------------------------------------------------------------------
\* Construction, serialization and validation of one matcher
\* ------------------------------------------------------------------------
\* the patterns given to calls() and variable(): str, the empty str, an int
Patterns ==
    {PyStr(<<"a">>), PyStr(<<"r", ".", "*">>), PyStr(<<>>), PyInt(5), PyInt(0)}

PatternLists ==
    {<<>>} \cup {<<x>> : x \in Patterns} \cup {<<x, y>> : x, y \in Patterns}

\* match_position arguments: omitted, {}, {0: "x"}, {0: "1.*", "1": ["y?", 2]}
PositionArgs ==
    {<<>>, << <<>> >>,
     << << <<PyInt(0), PyStr(<<"x">>)>> >> >>,
     << << <<PyInt(0), PyStr(<<"1", ".", "*">>)>>,
           <<PyStr(<<"1">>), PyList(<<PyStr(<<"y", "?">>), PyInt(2)>>)>> >> >>}

\* match_name arguments: omitted, {}, {"k": True}
NameArgs == {<<>>, << <<>> >>, << << <<PyStr(<<"k">>), PyBool(TRUE)>> >> >>}

VariableUser == VariableMatcher(PyStr(<<"u", "*">>)).val[1]

AndPair == AndOperator(<<CallEval, VariableUser>>).val[1]

NotEval == NotOperator(CallEval).val[1]

\* an object that is no matcher
NoMatcher == [kind |-> "int"]

\* a dataflow matcher built earlier with the process defaults, its propagation
\* the list the defaults hold
FlowInner ==
    [kind |-> "dataflow", sources |-> PyList(<<CallSource>>),
     sinks |-> PyList(<<CallSink>>), sanitizers |-> PyList(<<>>),
     propagates_through |-> 1, scope |-> "local"]

\* a dataflow matcher built earlier from a bare variable matcher, stored as
\* given
FlowBare ==
    [kind |-> "dataflow", sources |-> Obj(VariableUser),
     sinks |-> PyList(<<CallSink>>), sanitizers |-> PyList(<<>>),
     propagates_through |-> 1, scope |-> "local"]

\* from_sources / to_sinks / sanitized_by arguments: a bare matcher of every
\* class, and lists of none, one and two matchers
MatcherArgs ==
    {Obj(CallSource), Obj(VariableUser), Obj(AndPair), Obj(NotEval), Obj(FlowInner),
     PyList(<<>>), PyList(<<CallSource>>), PyList(<<VariableUser, CallEval>>),
     PyList(<<AndPair, FlowInner>>)}

SinkMatcherArgs == {Obj(CallSink), Obj(VariableUser), PyList(<<>>), PyList(<<CallSink, NotEval>>)}

SanitizerArgs ==
    {<<>>} \cup {<<x>> : x \in {Obj(CallEval), Obj(AndPair), PyList(<<>>),
                                PyList(<<CallEval, VariableUser>>)}}

\* the operands given to And() / Or() and to Not()
OperandLists ==
    {<<>>, <<CallEval>>, <<CallEval, VariableUser>>, <<AndPair, FlowInner, NotEval>>,
     <<CallEval, NoMatcher>>, <<FlowBare, CallEval>>}

Operands == {CallEval, AndPair, FlowInner, NoMatcher}

\* the calls under study
BuildArgs ==
    [op : {"calls"}, patterns : PatternLists, match_position : PositionArgs,
     match_name : NameArgs]
    \cup [op : {"dsl_calls"}, patterns : PatternLists]
    \cup [op : {"variable"}, pattern : Patterns]
    \cup [op : {"flows"}, from_sources : MatcherArgs, to_sinks : SinkMatcherArgs,
          sanitized_by : SanitizerArgs,
          propagates_through : {<<>>} \cup {<<x>> : x \in ExplicitPropagation},
          scope : {<<>>} \cup {<<x>> : x \in ExplicitScope}]
    \cup [op : {"flows_preset"}, preset : PresetNames]
    \cup [op : {"And", "Or"}, matchers : OperandLists]
    \cup [op : {"Not"}, matcher : Operands]

\* the call a: the constructor applied to its arguments, on heap h (an explicit
\* propagates_through is a list the caller has just built)
construct(a, h) ==
    LET plain(r) == [exc |-> r.exc, val |-> r.val, heap |-> h]
    IN  CASE a.op = "calls" ->
                plain(CallMatcher(a.patterns, a.match_position, a.match_name))
          [] a.op = "dsl_calls" -> plain(dsl_CallMatcher(a.patterns))
          [] a.op = "variable" -> plain(VariableMatcher(a.pattern))
          [] a.op = "flows" ->
                IF a.propagates_through = <<>>
                THEN DataflowMatcher(a.from_sources, a.to_sinks, a.sanitized_by,
                                     <<>>, a.scope, h)
                ELSE DataflowMatcher(a.from_sources, a.to_sinks, a.sanitized_by,
                                     <<Len(h) + 1>>, a.scope,
                                     Append(h, a.propagates_through[1]))
          [] a.op = "flows_preset" ->
                DataflowMatcher(Obj(CallSource), Obj(CallSink), <<>>, <<Len(h) + 1>>,
                                <<>>, Append(h, PropagationPresets(a.preset)))
          [] a.op = "And" -> plain(AndOperator(a.matchers))
          [] a.op = "Or" -> plain(OrOperator(a.matchers))
          [] a.op = "Not" -> plain(NotOperator(a.matcher))

\* The process has its defaults set and is about to make the call arg.
InitBuild ==
    /\ _rule_registry = <<>>
    /\ _auto_execute_enabled = FALSE
    /\ atexit_handlers = 0
    /\ func_calls = <<>>
    /\ hook_runs = 0
    /\ stdout = <<>>
    /\ phase = "running"
    /\ raised = "none"
    /\ \E dp \in PropagationArgs :
          /\ heap = <<dp>>
          /\ last_set \in [propagation : {1}, primitives : {dp}, scope : {"local", "global"}]
    /\ _default_propagation = 1
    /\ _default_scope = last_set.scope
    /\ matchers = <<>>
    /\ defined = <<>>
    /\ flows_args = <<>>
    /\ arg \in BuildArgs
    /\ ret = [step |-> "called"]
    /\ _dockerfile_rules = <<>>
    /\ _compose_rules = <<>>
    /\ container_auto_execute_enabled = FALSE
    /\ container_atexit_handlers = 0
    /\ container_calls = <<>>

\* the constructor runs
Construct ==
    /\ ret.step = "called"
    /\ LET r == construct(arg, heap)
       IN  /\ ret' = [step |-> "constructed", built |-> r.val]
           /\ raised' = r.exc
           /\ heap' = IF Returned(r) THEN r.heap ELSE heap
    /\ UNCHANGED <<_default_propagation, _default_scope, matchers, flows_args,
                   last_set, phase, arg>>
    /\ UNCHANGED lifecycle_vars
    /\ UNCHANGED container_vars

\* to_ir() is called on the object built
ToIR ==
    /\ ret.step = "constructed"
    /\ ret.built # <<>>
    /\ LET r == to_ir(ret.built[1], heap)
       IN  /\ ret' = [step |-> "serialized", built |-> ret.built, ir |-> r.val]
           /\ raised' = r.exc
    /\ UNCHANGED <<_default_propagation, _default_scope, heap, matchers, flows_args,
                   last_set, phase, arg>>
    /\ UNCHANGED lifecycle_vars
    /\ UNCHANGED container_vars

\* validate_ir() is called on every matcher node of the decoded IR
ValidateNodes ==
    /\ ret.step = "serialized"
    /\ ret.ir # <<>>
    /\ ret' = [step |-> "validated", built |-> ret.built, ir |-> ret.ir,
               valid |-> [n \in IRNodes(ret.ir[1]) |-> validate_ir(json_value(n))]]
    /\ raised' = IF \E n \in IRNodes(ret.ir[1]) : ~Returned(validate_ir(json_value(n)))
                 THEN "TypeError" ELSE "none"
    /\ UNCHANGED <<_default_propagation, _default_scope, heap, matchers, flows_args,
                   last_set, phase, arg>>
    /\ UNCHANGED lifecycle_vars
    /\ UNCHANGED container_vars

NextBuild == Construct \/ ToIR \/ ValidateNodes

SpecBuild == InitBuild /\ [][NextBuild]_vars

\* ------------------------------------------------------------------------
\* validate_ir applied to a decoded JSON value
\* ------------------------------------------------------------------------
\* a field that the object does not have
Missing == [t |-> "missing"]

\* the dict with the fields of the record r that are not Missing
DictOf(r) == PyDict([k \in {x \in DOMAIN r : r[x] # Missing} |-> r[k]])

Tag(text) == PyStr(Chars(text))

\* a valid leaf node
LeafNode ==
    DictOf([type |-> Tag("call_matcher"), patterns |-> PyList(<<PyStr(<<"a">>)>>),
            wildcard |-> PyBool(FALSE)])

\* values of "type": the six tags, an unknown tag, a number, null, a list
TypeValues ==
    {Tag(t) : t \in IRTypeValues} \cup {PyStr(<<"x">>), PyInt(5), PyNone, PyList(<<>>)}

\* values of "patterns"
PatternsValues ==
    {Missing, PyList(<<>>), PyList(<<PyStr(<<"a">>)>>), PyList(<<PyInt(1)>>),
     PyList(<<PyStr(<<"a">>), PyInt(1)>>), PyList(<<PyStr(<<"a">>), PyStr(<<>>)>>),
     PyStr(<<"a">>), PyNone}

\* values of "wildcard"
WildcardValues ==
    {Missing, PyBool(TRUE), PyBool(FALSE), PyInt(0), PyStr(<<"n", "o">>), PyNone}

\* values of "pattern"
PatternValues ==
    {Missing, PyStr(<<>>), PyStr(<<"u">>), PyInt(5), PyList(<<PyStr(<<"u">>)>>), PyNone}

\* values of "sources", "sinks", "sanitizers" and "propagation"
ListValues ==
    {Missing, PyList(<<>>), PyList(<<LeafNode>>), PyList(<<PyInt(1)>>), PyStr(<<"a">>)}

\* values of "scope"
ScopeValues ==
    {Missing, Tag("local"), Tag("global"), PyStr(<<"x">>), PyInt(1), PyList(<<>>)}

CallNodes ==
    {DictOf(r) : r \in [type : {Tag("call_matcher")}, patterns : PatternsValues,
                        wildcard : WildcardValues]}

VariableNodes ==
    {DictOf(r) : r \in [type : {Tag("variable_matcher")}, pattern : PatternValues,
                        wildcard : WildcardValues]}

DataflowNodes ==
    {DictOf(r) : r \in [type : {Tag("dataflow")}, sources : ListValues,
                        sinks : ListValues,
                        sanitizers : {Missing, PyList(<<>>), PyList(<<LeafNode>>), PyNone},
                        propagation : {Missing, PyList(<<>>), PyList(<<PyInt(1)>>), PyNone},
                        scope : ScopeValues]}

\* objects of every type value, and of none, with other fields of any kind
OtherNodes ==
    {DictOf(r) : r \in [type : TypeValues \cup {Missing},
                        matchers : {Missing, PyList(<<>>), PyInt(3)},
                        matcher : {Missing, PyNone},
                        patterns : {Missing, PyList(<<>>)}]}

\* decoded JSON values that are no object: null, numbers, booleans, lists, strings
NonObjects ==
    {PyNone, PyInt(0), PyInt(5), PyBool(TRUE), PyBool(FALSE),
     PyList(<<>>), PyList(<<PyInt(1)>>), PyList(<<Tag("type")>>), PyList(<<LeafNode>>),
     PyStr(<<>>), PyStr(<<"a", "b", "c">>), Tag("type"), Tag("dataflow"),
     PyStr(<<"m", "y">> \o Chars("type") \o <<"s">>)}

JsonValues == CallNodes \cup VariableNodes \cup DataflowNodes \cup OtherNodes \cup NonObjects

\* The process is about to call validate_ir(arg).
InitValidate ==
    /\ InitProcess
    /\ arg \in JsonValues
    /\ ret = [step |-> "called"]

\* validate_ir(arg) returns or raises
Validate ==
    /\ ret.step = "called"
    /\ LET r == validate_ir(arg)
       IN  /\ ret' = [step |-> "returned", result |-> r.val]
           /\ raised' = r.exc
    /\ UNCHANGED <<arg, phase, lifecycle_vars, config_vars, container_vars>>

NextValidate == Validate

SpecValidate == InitValidate /\ [][NextValidate]_vars

\* ------------------------------------------------------------------------
\* Properties of the registry and the exit hook
\* ------------------------------------------------------------------------
DefinedIn(m) == {i \in 1..Len(defined) : defined[i].module = m}

\* func() returns an object that serializes, in the current state
Serializes(f) ==
    LET m == call_func(f, heap)
    IN  /\ Returned(m)
        /\ HasToIR(m.val[1])
        /\ Returned(to_ir(m.val[1], m.heap))

\* every registered rule serializes, in the current state
AllSerialize == \A i \in 1..Len(_rule_registry) : Serializes(_rule_registry[i].func)

\* the IR of what func() returns, in the current state
MatcherIR(f) == to_ir(call_func(f, heap).val[1], heap).val[1]

\* __doc__ or ""
DocOrEmpty(f) == IF f.doc = <<>> THEN <<>> ELSE f.doc[1]

\* the record the emission holds for the rule definition d
Record(d) ==
    [rule |-> [id |-> d.id, name |-> d.func.name, severity |-> d.severity,
               cwe |-> d.cwe, owasp |-> d.owasp,
               description |-> Strip(DocOrEmpty(d.func))],
     matcher |-> MatcherIR(d.func)]

\* C1: however often _enable_auto_execute runs, one handler is registered with
\* atexit, the hook runs once at exit and at most one line is printed: the
\* line is there once, never twice, when the registered rules serialize.
C1_ArmedOnce ==
    /\ atexit_handlers = IF _auto_execute_enabled THEN 1 ELSE 0
    /\ Len(stdout) <= 1
    /\ (phase = "exited" /\ _auto_execute_enabled) => hook_runs = 1
    /\ (phase = "exited" /\ _auto_execute_enabled /\ _rule_registry # <<>>
          /\ AllSerialize) => Len(stdout) = 1

\* C1 witness: the hook armed by two rules of the entry-point module, and the
\* one line printed at exit
C1_Witness ==
    /\ phase = "exited"
    /\ Cardinality(DefinedIn("__main__")) >= 2
    /\ hook_runs = 1
    /\ Len(stdout) = 1

\* C2 as stated: with the hook armed, the exit prints one array holding the
\* record of every registered rule, in registration order.
C2_Original ==
    (phase = "exited" /\ _auto_execute_enabled) =>
        /\ Len(stdout) = 1
        /\ stdout[1] = [i \in 1..Len(defined) |-> Record(defined[i].def)]

\* C2 amended: with the hook armed and every registered rule serializing at
\* exit, one array is printed, its i-th record that of the i-th rule defined
\* (name the function's name, description the stripped docstring or "");
\* when some rule does not serialize, nothing is printed.
C2_Emission ==
    (phase = "exited" /\ _auto_execute_enabled) =>
        IF AllSerialize
        THEN stdout = << [i \in 1..Len(defined) |-> Record(defined[i].def)] >>
        ELSE stdout = <<>>

\* C2 witness: a line of two records, the second a rule an imported module
\* defined after the hook was armed, the first with a docstring to strip
C2_Witness ==
    /\ phase = "exited"
    /\ Len(stdout) = 1
    /\ Len(stdout[1]) = 2
    /\ defined[1].module = "__main__"
    /\ defined[2].module = "rules_lib"
    /\ defined[1].def.func.name = "detect_eval"
    /\ stdout[1][1].rule.description = <<"E">>
    /\ stdout[1][2].rule.description = <<>>

\* a step that applies the rule decorator
DefinitionStep == Len(defined') = Len(defined) + 1

\* a step that is a direct call of execute() on rule i
ExecuteStep(i) ==
    /\ phase' = "running"
    /\ defined' = defined
    /\ i \in 1..Len(func_calls)
    /\ func_calls'[i] # func_calls[i]

ExitStep == phase = "running" /\ phase' = "exited"

C5_ArmedByMain ==
    /\ Len(_rule_registry) = Len(defined)
    /\ \A i \in 1..Len(defined) :
         /\ i <= Len(_rule_registry)
         /\ _rule_registry[i].id = defined[i].def.id
    /\ _auto_execute_enabled <=> DefinedIn("__main__") # {}
    /\ atexit_handlers > 0 <=> DefinedIn("__main__") # {}
    /\ DefinedIn("__main__") = {} => (stdout = <<>> /\ hook_runs = 0)

\* C5 witness: two rules defined by an imported module, the process exited
C5_Witness ==
    /\ phase = "exited"
    /\ Len(_rule_registry) = 2
    /\ DefinedIn("rules_lib") = {1, 2}
    /\ ~_auto_execute_enabled
    /\ stdout = <<>>

\* C6: the armed hook running on an empty registry prints nothing.
C6_EmptyRegistry ==
    (phase = "exited" /\ _rule_registry = <<>>) =>
        /\ stdout = <<>>
        /\ raised = "none"
        /\ hook_runs = atexit_handlers

\* C6 witness: the hook armed by a direct call has run on the empty registry
C6_Witness ==
    /\ phase = "exited"
    /\ _auto_execute_enabled
    /\ hook_runs = 1
    /\ _rule_registry = <<>>
    /\ stdout = <<>>

\* C9: the registry only grows: at every step the registry before is a prefix
\* of the registry after.
C9_RegistryGrows ==
    [][/\ Len(_rule_registry) <= Len(_rule_registry')
       /\ \A i \in 1..Len(_rule_registry) : _rule_registry'[i] = _rule_registry[i]]_vars

\* C9 witness: two rules defined, execute() called and the exit hook run,
\* the registry still the two rules in the order of their definition
C9_Witness ==
    /\ phase = "exited"
    /\ hook_runs = 1
    /\ Len(_rule_registry) = 2
    /\ _rule_registry[1].id = defined[1].def.id
    /\ _rule_registry[2].id = defined[2].def.id
    /\ _rule_registry[1].id # _rule_registry[2].id
    /\ \E i \in 1..2 : func_calls[i] = 2

\* ------------------------------------------------------------------------
\* Properties of the process defaults and the dataflow matchers
\* ------------------------------------------------------------------------
\* a step in which flows() returns a matcher
ConstructionStep == Len(matchers') = Len(matchers) + 1

\* the matcher the step built, and what flows() was given for it
Built == matchers'[Len(matchers')]

Given == flows_args'[Len(flows_args')]

\* the propagation of the IR of matcher m, on heap h
PropagationIR(m, h) == to_ir(m, h).val[1].propagation

C8_LatestSetter ==
    [][ConstructionStep =>
          /\ Given.propagates_through = <<>> =>
                /\ Built.propagates_through = last_set.propagation
                /\ heap[last_set.propagation] = last_set.primitives =>
                      PropagationIR(Built, heap')
                        = create_propagation_list(last_set.primitives)
                /\ heap[last_set.propagation] = PresetMinimal =>
                      /\ Len(heap'[Built.propagates_through]) = 2
                      /\ PropagationIR(Built, heap')
                           = << [type |-> "assignment", metadata |-> <<>>],
                                [type |-> "function_args", metadata |-> <<>>] >>
          /\ Given.scope = <<>> => Built.scope = last_set.scope]_vars

\* C8 witness: a matcher built with both omitted after the minimal preset
\* and "local" were set, the latest call one that raised
C8_Witness ==
    /\ raised = "ValueError"
    /\ last_set = [propagation |-> 2, primitives |-> PresetMinimal, scope |-> "local"]
    /\ Len(matchers) = 1
    /\ flows_args[1].propagates_through = <<>>
    /\ flows_args[1].scope = <<>>
    /\ heap[matchers[1].propagates_through] = PresetMinimal
    /\ matchers[1].scope = "local"

\* a step that appends to the list that is the default propagation
DefaultMutated ==
    /\ _default_propagation' = _default_propagation
    /\ heap'[_default_propagation] = Append(heap[_default_propagation], Appended)

\* C10: the getter returns the very list last passed to the setter; a matcher
\* built with propagation omitted stores that list; an append to it shows in
\* the default, in the matchers built from it before, and in those built after.
C10_LiveReference ==
    [][/\ get_default_propagation' = last_set'.propagation
       /\ (ConstructionStep /\ Given.propagates_through = <<>>) =>
             /\ Built.propagates_through = get_default_propagation
             /\ PropagationIR(Built, heap')
                  = create_propagation_list(heap[get_default_propagation])
       /\ DefaultMutated =>
             \A i \in 1..Len(matchers) :
                (/\ flows_args[i].propagates_through = <<>>
                 /\ flows_args[i].dflt = last_set.propagation) =>
                    PropagationIR(matchers[i], heap')
                      = create_propagation_list(heap'[_default_propagation])]_vars

\* C10 witness: the list set as default appended to after one matcher was
\* built from it and before another: both show the three elements
C10_Witness ==
    /\ Len(matchers) = 2
    /\ last_set.primitives = PresetMinimal
    /\ heap[_default_propagation] = Append(PresetMinimal, Appended)
    /\ \A i \in 1..2 :
         /\ flows_args[i].propagates_through = <<>>
         /\ flows_args[i].dflt = last_set.propagation
    /\ flows_args[1].seen = 2
    /\ flows_args[2].seen = 3
    /\ Len(PropagationIR(matchers[1], heap)) = 3
    /\ Len(PropagationIR(matchers[2], heap)) = 3

\* ------------------------------------------------------------------------
\* Properties of construction, serialization and validation
\* ------------------------------------------------------------------------
\* to_ir() has returned on the object the call arg built
Serialized == ret.step \in {"serialized", "validated"} /\ ret.ir # <<>>

\* the keys of the argument dicts the IR of the call matcher built by arg has
ArgKeys ==
    (IF OrEmptyDict(arg.match_position) # <<>> THEN {"positionalArgs"} ELSE {})
    \cup (IF OrEmptyDict(arg.match_name) # <<>> THEN {"keywordArgs"} ELSE {})

ElementwiseIR(irs, ms) ==
    /\ Len(irs) = Len(ms.l)
    /\ \A i \in 1..Len(irs) : irs[i] = to_ir(ms.l[i], heap).val[1]

\* C12: the IR of a dataflow matcher has exactly the keys type ("dataflow"),
\* sources, sinks, sanitizers, propagation and scope; each list is as long as
\* the matcher's list and in its order, a matcher element being the to_ir()
\* of the matcher and a propagation element {type: tag, metadata}.
C12_DataflowIR ==
    (Serialized /\ arg.op = "flows") =>
        LET m == ret.built[1]
            ir == ret.ir[1]
            prims == heap[m.propagates_through]
        IN  /\ DOMAIN ir = {"type", "sources", "sinks", "sanitizers", "propagation",
                            "scope"}
            /\ ir.type = "dataflow"
            /\ ir.scope = m.scope
            /\ ElementwiseIR(ir.sources, m.sources)
            /\ ElementwiseIR(ir.sinks, m.sinks)
            /\ ElementwiseIR(ir.sanitizers, m.sanitizers)
            /\ Len(ir.propagation) = Len(prims)
            /\ \A i \in 1..Len(prims) :
                 /\ DOMAIN ir.propagation[i] = {"type", "metadata"}
                 /\ ir.propagation[i].type = PropagationType[prims[i].type]
                 /\ ir.propagation[i].metadata = prims[i].metadata

\* C12 witness: the IR of a dataflow matcher with two sources, two sinks, two
\* sanitizers and the two primitives of the minimal preset
C12_Witness ==
    /\ Serialized
    /\ arg.op = "flows"
    /\ Len(ret.ir[1].sources) = 2
    /\ Len(ret.ir[1].sinks) = 2
    /\ Len(ret.ir[1].sanitizers) = 2
    /\ ret.ir[1].sources[1].type = "variable_matcher"
    /\ ret.ir[1].sources[2].type = "call_matcher"
    /\ Len(ret.ir[1].propagation) = 2
    /\ ret.ir[1].propagation[1].type = "assignment"
    /\ ret.ir[1].propagation[2].type = "function_args"

\* the constructor has returned the object the call arg builds
Constructed == ret.step \in {"constructed", "serialized", "validated"} /\ ret.built # <<>>

\* a bare matcher given where a list is expected
IsBare(a) == a.t = "obj"

\* C13: a bare matcher of any class (call, variable, dataflow, And/Or/Not)
\* given as from_sources, to_sinks or sanitized_by is stored as the list of
\* that one matcher, and to_ir() then returns an IR whose list holds the one
\* IR of that matcher.
C13_Original ==
    (Constructed /\ arg.op = "flows") =>
        /\ IsBare(arg.from_sources) =>
              ret.built[1].sources = PyList(<<arg.from_sources.o>>)
        /\ IsBare(arg.to_sinks) => ret.built[1].sinks = PyList(<<arg.to_sinks.o>>)
        /\ (arg.sanitized_by # <<>> /\ IsBare(arg.sanitized_by[1])) =>
              ret.built[1].sanitizers = PyList(<<arg.sanitized_by[1].o>>)
        /\ ret.step = "serialized" => (ret.ir # <<>> /\ raised = "none")
        /\ (Serialized /\ IsBare(arg.from_sources)) =>
              ret.ir[1].sources = <<to_ir(arg.from_sources.o, heap).val[1]>>
        /\ (Serialized /\ IsBare(arg.to_sinks)) =>
              ret.ir[1].sinks = <<to_ir(arg.to_sinks.o, heap).val[1]>>

\* the call under study is flows(...) / DataflowMatcher(...)
IsFlows == arg.op = "flows"

\* the scope the constructor resolves: the argument, else the process default
ResolvedScope == IF arg.scope = <<>> THEN _default_scope ELSE arg.scope[1]

\* C14: constructing a dataflow matcher fails with ValueError, and leaves no
\* object, when the sources are an empty list, when the sinks are an empty
\* list, or when an explicit scope is neither "local" nor "global"; every
\* dataflow matcher constructed holds sources and sinks that are not an empty
\* list and a scope that is "local" or "global", whatever defaults the process
\* had at the call.
C14_DataflowInvariant ==
    (IsFlows /\ ret.step # "called") =>
        /\ (\/ arg.from_sources = PyList(<<>>)
            \/ arg.to_sinks = PyList(<<>>)
            \/ (arg.scope # <<>> /\ arg.scope[1] \notin {"local", "global"}))
              => (ret.built = <<>> /\ (ret.step = "constructed" => raised = "ValueError"))
        /\ ret.built # <<>> =>
              /\ ret.built[1].kind = "dataflow"
              /\ ret.built[1].sources # PyList(<<>>)
              /\ ret.built[1].sinks # PyList(<<>>)
              /\ ret.built[1].sources.t = "list" => Len(ret.built[1].sources.l) >= 1
              /\ ret.built[1].sinks.t = "list" => Len(ret.built[1].sinks.l) >= 1
              /\ ret.built[1].scope \in {"local", "global"}
              /\ ret.built[1].scope = ResolvedScope

\* a dataflow matcher is refused for its explicit scope alone, both lists
\* being filled
C14_Witness ==
    /\ IsFlows
    /\ ret.step = "constructed"
    /\ arg.from_sources = PyList(<<CallSource>>)
    /\ arg.to_sinks = PyList(<<CallSink, NotEval>>)
    /\ arg.scope = <<"invalid">>
    /\ ret.built = <<>>
    /\ raised = "ValueError"

\* the call builds a tree of matchers: every operand of And/Or/Not is a matcher
MatcherTree ==
    CASE arg.op \in {"And", "Or"} -> \A i \in 1..Len(arg.matchers) : HasToIR(arg.matchers[i])
      [] arg.op = "Not" -> HasToIR(arg.matcher)
      [] OTHER -> TRUE

\* C15: round trip.  For every matcher tree that has been constructed (call,
\* variable, dataflow, And/Or/Not, nested, with or without propagation
\* primitives and argument constraints) to_ir() returns an IR, and
\* validate_ir returns true on the decoded IR of the root and of every matcher
\* node below it.
C15_RoundTrip ==
    MatcherTree =>
        /\ ret.step = "serialized" => (ret.ir # <<>> /\ raised = "none")
        /\ ret.step = "validated" =>
              /\ ret.ir[1] \in DOMAIN ret.valid
              /\ \A n \in DOMAIN ret.valid : ret.valid[n] = Ok(TRUE)

\* a pattern the constructors accept: a str that is not empty
NonEmptyString(p) == p.t = "str" /\ Len(p.s) > 0

\* the patterns of the call are refused: none given, or one that is empty or
\* no str
BadPatterns ==
    CASE arg.op \in {"calls", "dsl_calls"} ->
            \/ arg.patterns = <<>>
            \/ \E i \in 1..Len(arg.patterns) : ~NonEmptyString(arg.patterns[i])
      [] arg.op = "variable" -> ~NonEmptyString(arg.pattern)
      [] OTHER -> FALSE

\* C20: constructing a call matcher with no pattern, or with a pattern that is
\* empty or not a str, and constructing a variable matcher with a pattern that
\* is empty or not a str, raises ValueError and leaves no matcher object (so
\* nothing is serialized afterwards); with patterns that are all non-empty
\* str the matcher is built with these patterns.
C20_InvalidPattern ==
    (arg.op \in {"calls", "dsl_calls", "variable"} /\ ret.step # "called") =>
        IF BadPatterns
        THEN ret.step = "constructed" /\ ret.built = <<>> /\ raised = "ValueError"
        ELSE /\ ret.built # <<>>
             /\ arg.op = "variable" => ret.built[1].pattern = arg.pattern
             /\ arg.op # "variable" => ret.built[1].patterns = arg.patterns

\* calls("a", 5): the second pattern is an int that is not falsy, and the
\* constructor has raised
C20_Witness ==
    /\ arg.op = "calls"
    /\ arg.patterns = <<PyStr(<<"a">>), PyInt(5)>>
    /\ ret.step = "constructed"
    /\ ret.built = <<>>
    /\ raised = "ValueError"

\* ------------------------------------------------------------------------
\* Claims: validate_ir
\* ------------------------------------------------------------------------
\* validate_ir(arg) has returned or raised
Validated == ret.step = "returned"

\* arg is an object whose "type" is the tag given
IsNode(tag) == arg.t = "dict" /\ HasKey(arg.d, "type") /\ arg.d["type"] = Tag(tag)

\* the field k of arg is a list / a list that is not empty / a boolean
FieldIsList(k) == HasKey(arg.d, k) /\ arg.d[k].t = "list"

FieldIsFilledList(k) == FieldIsList(k) /\ Len(arg.d[k].l) >= 1

FieldIsBool(k) == HasKey(arg.d, k) /\ arg.d[k].t = "bool"

\* C16: validate_ir never raises: on every decoded JSON value (an object with
\* fields present, missing or of the wrong type, a list, a string, a number,
\* a boolean, null) it returns a boolean.
C16_NeverRaises ==
    Validated => (raised = "none" /\ ret.result \in {<<TRUE>>, <<FALSE>>})

\* C17: validate_ir returns true on a call_matcher node exactly when patterns
\* is a non-empty list whose elements are all strings and wildcard is a
\* boolean, and on a variable_matcher node exactly when pattern is a
\* non-empty string and wildcard is a boolean.
C17_LeafNodes ==
    /\ (Validated /\ IsNode("call_matcher")) =>
          (ret.result = <<TRUE>> <=>
              /\ FieldIsFilledList("patterns")
              /\ \A i \in 1..Len(arg.d["patterns"].l) : arg.d["patterns"].l[i].t = "str"
              /\ FieldIsBool("wildcard"))
    /\ (Validated /\ IsNode("variable_matcher")) =>
          (ret.result = <<TRUE>> <=>
              /\ HasKey(arg.d, "pattern")
              /\ arg.d["pattern"].t = "str"
              /\ Len(arg.d["pattern"].s) >= 1
              /\ FieldIsBool("wildcard"))

\* C18: validate_ir returns true on a dataflow node exactly when sources and
\* sinks are non-empty lists, sanitizers and propagation are lists (possibly
\* empty) and scope is "local" or "global"; with a field missing, with an
\* empty sources or sinks list, or with any other scope it returns false.
C18_DataflowNode ==
    (Validated /\ IsNode("dataflow")) =>
        /\ raised = "none"
        /\ ret.result \in {<<TRUE>>, <<FALSE>>}
        /\ ret.result = <<TRUE>> <=>
              /\ FieldIsFilledList("sources")
              /\ FieldIsFilledList("sinks")
              /\ FieldIsList("sanitizers")
              /\ FieldIsList("propagation")
              /\ HasKey(arg.d, "scope")
              /\ arg.d["scope"] \in {Tag("local"), Tag("global")}

\* a dataflow node with every field right but the scope has been refused
C18_Witness ==
    /\ Validated
    /\ IsNode("dataflow")
    /\ FieldIsFilledList("sources")
    /\ FieldIsFilledList("sinks")
    /\ FieldIsList("sanitizers")
    /\ FieldIsList("propagation")
    /\ HasKey(arg.d, "scope")
    /\ arg.d["scope"] = PyStr(<<"x">>)
    /\ ret.result = <<FALSE>>

\* C19: validate_ir returns false on a node without a "type" field and on a
\* node whose type is no known tag, and true on every node whose type is
\* logic_and, logic_or or logic_not, whatever its other fields are.
C19_TypeField ==
    (Validated /\ arg.t = "dict") =>
        /\ ~HasKey(arg.d, "type") => ret.result = <<FALSE>>
        /\ (HasKey(arg.d, "type") /\ arg.d["type"] \notin {Tag(t) : t \in IRTypeValues})
              => ret.result = <<FALSE>>
        /\ (IsNode("logic_and") \/ IsNode("logic_or") \/ IsNode("logic_not"))
              => ret.result = <<TRUE>>

\* a logic_not node whose matcher is null and whose matchers is a number has
\* been accepted
C19_Witness ==
    /\ Validated
    /\ IsNode("logic_not")
    /\ HasKey(arg.d, "matcher")
    /\ arg.d["matcher"] = PyNone
    /\ HasKey(arg.d, "matchers")
    /\ arg.d["matchers"] = PyInt(3)
    /\ ret.result = <<TRUE>>

\* ------------------------------------------------------------------------
\* Claims: wildcards, combinators, presets
\* ------------------------------------------------------------------------
\* the str p holds the character c
HasChar(p, c) == \E j \in 1..Len(p.s) : p.s[j] = c

\* C21: for every non-empty list P of non-empty str patterns, the wildcard of
\* CallMatcher(P) is true exactly when some pattern of P holds '*', and the
\* patterns of its IR are P in the order given; the wildcard of
\* VariableMatcher(p) is true exactly when p holds '*'.
C21_Wildcard ==
    /\ (Constructed /\ arg.op \in {"calls", "dsl_calls"}) =>
          /\ ret.built[1].wildcard <=>
                \E i \in 1..Len(arg.patterns) : HasChar(arg.patterns[i], "*")
          /\ Serialized =>
                /\ ret.ir[1].patterns = arg.patterns
                /\ ret.ir[1].wildcard = ret.built[1].wildcard
    /\ (Constructed /\ arg.op = "variable") =>
          /\ ret.built[1].wildcard <=> HasChar(arg.pattern, "*")
          /\ Serialized =>
                /\ ret.ir[1].pattern = arg.pattern
                /\ ret.ir[1].wildcard = ret.built[1].wildcard

\* calls("a", "r.*") has been serialized: the '*' is in the second pattern
C21_Witness ==
    /\ Serialized
    /\ arg.op = "calls"
    /\ arg.patterns = <<PyStr(<<"a">>), PyStr(<<"r", ".", "*">>)>>
    /\ ret.built[1].wildcard
    /\ ret.ir[1].patterns[2] = PyStr(<<"r", ".", "*">>)

\* the value v of a constraint is a str holding '*' or '?', or a list with
\* such a str among its elements
ValueHasWildcard(v) ==
    \/ v.t = "str" /\ (HasChar(v, "*") \/ HasChar(v, "?"))
    \/ v.t = "list" /\ \E i \in 1..Len(v.l) :
           v.l[i].t = "str" /\ (HasChar(v.l[i], "*") \/ HasChar(v.l[i], "?"))

\* the constraints emitted under the key field are those of the dict given:
\* one per entry, under str(key), with the value given and the wildcard due
ConstraintsOf(given, field) ==
    given # <<>> =>
        /\ field \in DOMAIN ret.ir[1]
        /\ Len(ret.ir[1][field]) = Len(given)
        /\ \A i \in 1..Len(given) :
              /\ ret.ir[1][field][i][1] = StrOf(given[i][1])
              /\ ret.ir[1][field][i][2].value = given[i][2]
              /\ ret.ir[1][field][i][2].wildcard <=>
                    (ret.built[1].wildcard \/ ValueHasWildcard(given[i][2]))

C22_WitnessValues ==
    /\ Serialized
    /\ arg.op = "calls"
    /\ ~ret.built[1].wildcard
    /\ Len(OrEmptyDict(arg.match_position)) = 2
    /\ ret.ir[1].positionalArgs[2][2].wildcard
    /\ arg.match_name # <<>> /\ arg.match_name[1] # <<>>
    /\ ~ret.ir[1].keywordArgs[1][2].wildcard

\* to_ir() of the operand x returns
OperandSerializes(x) == HasToIR(x) /\ Returned(to_ir(x, heap))

\* C23: And and Or raise ValueError when given fewer than 2 matchers (none
\* or one); given 2 or more, to_ir() returns whenever to_ir() of every
\* operand does, and its matchers are then as many as the arguments, in
\* their order, each the to_ir() of its argument, whatever the class of the
\* argument (call, variable, And/Or/Not, dataflow).
C23_AndOr ==
    (arg.op \in {"And", "Or"} /\ ret.step # "called") =>
        IF Len(arg.matchers) < 2
        THEN ret.step = "constructed" /\ ret.built = <<>> /\ raised = "ValueError"
        ELSE /\ ret.built # <<>>
             /\ ret.built[1].matchers = arg.matchers
             /\ (ret.step = "serialized"
                   /\ \A i \in 1..Len(arg.matchers) : OperandSerializes(arg.matchers[i]))
                   => ret.ir # <<>>
             /\ Serialized =>
                   /\ DOMAIN ret.ir[1] = {"type", "matchers"}
                   /\ ret.ir[1].type = (IF arg.op = "And" THEN "logic_and" ELSE "logic_or")
                   /\ Len(ret.ir[1].matchers) = Len(arg.matchers)
                   /\ \A i \in 1..Len(arg.matchers) :
                         ret.ir[1].matchers[i] = to_ir(arg.matchers[i], heap).val[1]

\* Or(And(...), flows(...), Not(...)) has been serialized with its three
\* operands in order
C23_Witness ==
    /\ Serialized
    /\ arg.op = "Or"
    /\ arg.matchers = <<AndPair, FlowInner, NotEval>>
    /\ ret.ir[1].type = "logic_or"
    /\ ret.ir[1].matchers[1].type = "logic_and"
    /\ ret.ir[1].matchers[2].type = "dataflow"
    /\ ret.ir[1].matchers[3].type = "logic_not"

\* And(calls("eval")) has been refused
C23_WitnessRefused ==
    /\ arg.op = "And"
    /\ arg.matchers = <<CallEval>>
    /\ ret.step = "constructed"
    /\ ret.built = <<>>
    /\ raised = "ValueError"

\* the tags of the propagation entries of the IR serialized
PropagationTags == [i \in 1..Len(ret.ir[1].propagation) |-> ret.ir[1].propagation[i].type]

StandardTags ==
    <<"assignment", "function_args", "function_returns", "string_concat", "string_format">>

\* C24: the propagation presets are ordered lists of fixed content: minimal is
\* [assignment, function_args]; standard is [assignment, function_args,
\* function_returns, string_concat, string_format]; comprehensive has the
\* tags of standard in the same order, exhaustive those of comprehensive.
\* Stated on the list handed to flows() and on the propagation of the IR.
C24_Presets ==
    (arg.op = "flows_preset" /\ Constructed) =>
        LET prims == heap[ret.built[1].propagates_through]
            tags == [i \in 1..Len(prims) |-> PropagationType[prims[i].type]]
        IN  /\ arg.preset = "minimal" => tags = <<"assignment", "function_args">>
            /\ arg.preset \in {"standard", "comprehensive", "exhaustive"}
                  => tags = StandardTags
            /\ Serialized => PropagationTags = tags

\* flows(..., propagates_through=PropagationPresets.exhaustive()) has been
\* serialized with the five tags
C24_Witness ==
    /\ arg.op = "flows_preset"
    /\ arg.preset = "exhaustive"
    /\ Serialized
    /\ Len(ret.ir[1].propagation) = 5
    /\ ret.ir[1].propagation[5].type = "string_format"

\* ------------------------------------------------------------------------
\* Claims: the defaults over the life of the process
\* ------------------------------------------------------------------------
\* how many in-place appends the list that is the default propagation has had
DefaultAppends ==
    Cardinality({i \in 1..Len(heap[_default_propagation]) :
                    heap[_default_propagation][i] = Appended})

\* C25: in a fresh process (no setter has been called, the default list has
\* not been appended to in place) the default scope is "global" and the
\* default propagation is the empty list, and flows() called with scope and
\* propagates_through omitted builds a matcher with scope "global" and no
\* propagation primitive.
C25_FreshDefaults ==
    [][/\ get_default_scope = "global"
       /\ DefaultAppends = 0 => heap[get_default_propagation] = <<>>
       /\ (/\ ConstructionStep
           /\ Given.propagates_through = <<>>
           /\ Given.scope = <<>>
           /\ DefaultAppends = 0) =>
             /\ Built.scope = "global"
             /\ heap'[Built.propagates_through] = <<>>
             /\ PropagationIR(Built, heap') = <<>>
             /\ to_ir(Built, heap').val[1].scope = "global"]_vars

\* the first call of the process is flows() with both arguments omitted: the
\* matcher has scope "global" and an empty propagation
C25_Witness ==
    /\ Len(matchers) = 1
    /\ Len(heap) = 1
    /\ flows_args[1].propagates_through = <<>>
    /\ flows_args[1].scope = <<>>
    /\ matchers[1].scope = "global"
    /\ heap[matchers[1].propagates_through] = <<>>

\* ------------------------------------------------------------------------
\* Claims: container rules
\* ------------------------------------------------------------------------
\* a step that applies dockerfile_rule's or compose_rule's decorator
DecorationStep == Len(container_calls') = Len(container_calls) + 1

\* the function the decorator of this step was applied to
Decorated == CHOOSE f \in ContainerFuncs : f.name = container_calls'[Len(container_calls')]

\* what the body of a rule function does when it is called
Unusable(f) == f.body \in {"raise", "str", "calls"}

\* C26: dockerfile_rule and compose_rule call the rule function at
\* decoration; when it raises, or returns a value that is neither a matcher
\* with to_dict nor a dict (ValueError), the error propagates and neither the
\* Dockerfile registry nor the compose registry changes.
C26_DecorationFailure ==
    [][DecorationStep =>
         /\ container_calls' = Append(container_calls, Decorated.name)
         /\ Unusable(Decorated) =>
               /\ raised' = (IF Decorated.body = "raise" THEN "RuntimeError" ELSE "ValueError")
               /\ _dockerfile_rules' = _dockerfile_rules
               /\ _compose_rules' = _compose_rules
         /\ ~Unusable(Decorated) =>
               /\ raised' = "none"
               /\ Len(_dockerfile_rules') + Len(_compose_rules')
                    = Len(_dockerfile_rules) + Len(_compose_rules) + 1]_vars

\* a rule was registered, then a function returning "not a matcher" was
\* decorated: ValueError, and the registry still holds the one rule
C26_Witness ==
    /\ Len(container_calls) = 2
    /\ container_calls[2] = "bad_rule"
    /\ raised = "ValueError"
    /\ Len(_dockerfile_rules) = 1
    /\ _dockerfile_rules[1].matcher = [type |-> "missing_instruction", instruction |-> "USER"]
    /\ _compose_rules = <<>>

\* ------------------------------------------------------------------------
\* Claims: the defaults and the matchers built from them
\* ------------------------------------------------------------------------
\* C27: in every reachable state default_scope is "local" or "global":
\* set_default_scope with any other value raises an error and leaves
\* default_scope and default_propagation as they were before the call.
C27_ScopeValidated ==
    /\ [](get_default_scope \in {"local", "global"})
    /\ [][\A s \in ScopeArgs \ {"local", "global"} :
            SetDefaultScope(s) =>
              /\ raised' = "ValueError"
              /\ get_default_scope' = get_default_scope
              /\ get_default_propagation' = get_default_propagation
              /\ heap' = heap]_vars

\* both defaults were set, no matcher was built, and the last call raised
\* ValueError: the defaults are still the ones that were set
C27_Witness ==
    /\ raised = "ValueError"
    /\ matchers = <<>>
    /\ last_set.propagation = 2
    /\ last_set.scope = "local"
    /\ get_default_scope = "local"
    /\ get_default_propagation = 2
    /\ heap[2] = last_set.primitives
    /\ heap[2] # <<>>

\* a call of set_default_propagation or of set_default_scope
SetterStep ==
    \/ \E p \in PropagationArgs : SetDefaultPropagation(p)
    \/ \E sc \in ScopeArgs : SetDefaultScope(sc)

\* C28: a call of set_default_propagation or set_default_scope never changes
\* the propagation or the scope of a matcher constructed before the call: the
\* matcher keeps its scope and its list, the list keeps its elements (the
\* setter stores another list, it does not modify the one that was the
\* default), and the matcher's IR is the same after the call.
C28_SettersLeaveMatchers ==
    [][SetterStep =>
         /\ Len(matchers') = Len(matchers)
         /\ \A i \in 1..Len(matchers) :
               /\ matchers'[i].scope = matchers[i].scope
               /\ matchers'[i].propagates_through = matchers[i].propagates_through
               /\ heap'[matchers[i].propagates_through] = heap[matchers[i].propagates_through]
               /\ to_ir(matchers'[i], heap') = to_ir(matchers[i], heap)
         /\ heap'[get_default_propagation] = heap[get_default_propagation]]_vars

\* a matcher built with both arguments omitted in the fresh process, then
\* both defaults set to something else: the matcher is still global with an
\* empty propagation
C28_Witness ==
    /\ Len(matchers) = 1
    /\ flows_args[1].propagates_through = <<>>
    /\ flows_args[1].scope = <<>>
    /\ matchers[1].propagates_through = 1
    /\ heap[1] = <<>>
    /\ matchers[1].scope = "global"
    /\ get_default_propagation = 2
    /\ heap[2] # <<>>
    /\ get_default_scope = "local"

\* a step in which the exit hook writes the records of the registered rules
EmissionStep == ExitStep /\ Len(stdout') = Len(stdout) + 1

\* the rules whose function builds a dataflow matcher with propagates_through
\* and scope omitted
FlowRules == {i \in 1..Len(defined) : defined[i].def.func.body = "flows"}

FailureOf(f) ==
    LET m == call_func(f, heap)
    IN  IF ~Returned(m) THEN m.exc
        ELSE IF ~HasToIR(m.val[1]) THEN "AttributeError"
        ELSE to_ir(m.val[1], m.heap).exc

\* the first registered rule that does not serialize, in the current state
FirstFailing ==
    CHOOSE i \in 1..Len(_rule_registry) :
        /\ ~Serializes(_rule_registry[i].func)
        /\ \A j \in 1..(i - 1) : Serializes(_rule_registry[j].func)

\* C30: the exit emission is all-or-nothing: when a registered rule fails
\* to serialize while the hook runs (its function raises, or returns a value
\* without to_ir, for which serialize_ir raises AttributeError), the error
\* escapes the hook and nothing is written, not even the records of the rules
\* before the failing one; whatever is written is one list with a record for
\* every registered rule.
C30_AllOrNothing ==
    /\ [](\A k \in 1..Len(stdout) : Len(stdout[k]) = Len(_rule_registry))
    /\ [][(ExitStep /\ atexit_handlers > 0 /\ ~AllSerialize) =>
            /\ stdout' = stdout
            /\ stdout' = <<>>
            /\ hook_runs' = hook_runs + 1
            /\ raised' = FailureOf(_rule_registry[FirstFailing].func)
            /\ raised' \in {"ValueError", "AttributeError"}]_vars

\* a rule that serializes registered before one whose function returns a
\* value without to_ir: the hook ran, called both functions, ended with
\* AttributeError and wrote nothing
C30_Witness ==
    /\ phase = "exited"
    /\ hook_runs = 1
    /\ Len(_rule_registry) = 2
    /\ _rule_registry[1].func.name = "detect_eval"
    /\ _rule_registry[2].func.name = "not_a_matcher"
    /\ func_calls = <<1, 1>>
    /\ raised = "AttributeError"
    /\ stdout = <<>>

====
